---- MODULE Spec2Model ----
(***************************************************************************)
(* Verification model of the microbioma-digital pipeline:                  *)
(*   ConnectionPool (DatabaseManagerOptimized), ObjectPool (MemoryPool),   *)
(*   EventBus, WorkerPool (StreamProcessor) and the Coordinator            *)
(*   (MicrobiomaDigitalOptimized).                                         *)
(* Each component has its own specification (SpecConn, SpecPool, ...); the *)
(* variables of the other components stay at their initial values.         *)
(***************************************************************************)
EXTENDS Integers, Sequences, FiniteSets, TLC

NULL == "null"

Min(a, b) == IF a < b THEN a ELSE b

Range(s) == {s[i] : i \in 1..Len(s)}

\* SelectSeq with a one-argument test given as a set of accepted elements
FilterSeq(s, keep) == SelectSeq(s, LAMBDA x : x \in keep)

(***************************************************************************)
(* ConnectionPool  (src/src/storage/DatabaseManagerOptimized.js)           *)
(***************************************************************************)
VARIABLES
    connections,        \* connectionPool.connections: sequence of [id, inUse, db]
    activeConnections,  \* connectionPool.activeConnections
    waitingQueue,       \* connectionPool.waitingQueue: resolvers of queued callers
    callerState,        \* position of each caller of getConnection
    callerConn,         \* db handle of the connection a caller was handed (NoConn if none)
    opened,             \* physical connections opened so far (the next db handle)
    preparedOn,         \* db handle the cached statements were compiled on (NoConn: no cache)
    runsOn,             \* per caller: db handle its cached statement is executing on
    closeState,         \* close(): "open", "closing" (awaiting db.close), "closed"
    lastQuery           \* outcome of the executeQuery that settled last (observer)

connVars == <<connections, activeConnections, waitingQueue, callerState, callerConn,
              opened, preparedOn, runsOn, closeState, lastQuery>>

\* what the pool operations of a running pool leave alone
stmtVars == <<preparedOn, runsOn, closeState>>

\* configured pool size (config.storage.database.maxConnections, scaled down)
maxConnections == 3
\* number of concurrent callers of getConnection
NumCallers == 5

\* cap on the number of physical connections opened
MaxOpened == 4

Callers == 1..NumCallers

\* a caller that holds no connection
NoConn == 0 - 1

\* initializeConnectionPool: min(2, maxConnections) idle connections, ids 0, 1, ...
initialConnections == Min(2, maxConnections)

\* the state after initialize(): the pool is filled and prepareCachedStatements
\* has compiled the cached statements on the first idle connection (id 0)
ConnInit ==
    /\ connections = [i \in 1..initialConnections |-> [id |-> i - 1, inUse |-> FALSE, db |-> i]]
    /\ activeConnections = 0
    /\ waitingQueue = <<>>
    /\ callerState = [c \in Callers |-> "idle"]
    /\ callerConn = [c \in Callers |-> NoConn]
    /\ opened = initialConnections
    /\ preparedOn = 1
    /\ runsOn = [c \in Callers |-> NoConn]
    /\ closeState = "open"
    /\ lastQuery = "none"

\* connections.find(conn => !conn.inUse): index of the first idle connection, 0 if none
availableConnection ==
    IF \E i \in 1..Len(connections) : ~connections[i].inUse
    THEN CHOOSE i \in 1..Len(connections) :
            /\ ~connections[i].inUse
            /\ \A j \in 1..(i - 1) : connections[j].inUse
    ELSE 0

\* getConnection up to its first suspension point
getConnection(c) ==
    /\ callerState[c] = "idle"
    /\ (availableConnection = 0 /\ Len(connections) < maxConnections) =>
           opened + Cardinality({d \in Callers : callerState[d] = "creating"}) < MaxOpened
    /\ IF availableConnection # 0
       THEN /\ connections' = [connections EXCEPT ![availableConnection].inUse = TRUE]
            /\ activeConnections' = activeConnections + 1
            /\ callerState' = [callerState EXCEPT ![c] = "holding"]
            /\ callerConn' = [callerConn EXCEPT ![c] = connections[availableConnection].db]
            /\ UNCHANGED waitingQueue
       ELSE IF Len(connections) < maxConnections
       THEN \* await createOptimizedConnection(): the caller is suspended
            /\ callerState' = [callerState EXCEPT ![c] = "creating"]
            /\ UNCHANGED <<connections, activeConnections, waitingQueue, callerConn>>
       ELSE /\ waitingQueue' = Append(waitingQueue, c)
            /\ callerState' = [callerState EXCEPT ![c] = "waiting"]
            /\ UNCHANGED <<connections, activeConnections, callerConn>>
    /\ UNCHANGED <<opened, stmtVars>>

\* getConnection resumed after createOptimizedConnection resolved
connectionCreated(c) ==
    /\ callerState[c] = "creating"
    /\ connections' = Append(connections,
                             [id |-> Len(connections), inUse |-> TRUE, db |-> opened + 1])
    /\ activeConnections' = activeConnections + 1
    /\ callerState' = [callerState EXCEPT ![c] = "holding"]
    /\ callerConn' = [callerConn EXCEPT ![c] = opened + 1]
    /\ opened' = opened + 1
    /\ UNCHANGED <<waitingQueue, stmtVars>>

\* getConnection resumed after createOptimizedConnection rejected
connectionFailed(c) ==
    /\ callerState[c] = "creating"
    /\ callerState' = [callerState EXCEPT ![c] = "idle"]
    /\ UNCHANGED <<connections, activeConnections, waitingQueue, callerConn, opened, stmtVars>>

\* index in connections of the connection with the given db handle, 0 if it
\* is no longer in the pool
ConnIndex(db) ==
    IF \E i \in 1..Len(connections) : connections[i].db = db
    THEN CHOOSE i \in 1..Len(connections) : connections[i].db = db
    ELSE 0

\* connection.inUse = value, on the connection object with the given db handle
SetInUse(db, value) ==
    IF ConnIndex(db) = 0 THEN connections
    ELSE [connections EXCEPT ![ConnIndex(db)].inUse = value]

\* releaseConnection handing the connection to the most recent waiter
releaseConnection_ServesLast(c) ==
    /\ callerState[c] = "holding"
    /\ LET last == waitingQueue[Len(waitingQueue)] IN
       IF Len(waitingQueue) > 0
       THEN /\ connections' = SetInUse(callerConn[c], TRUE)
            /\ activeConnections' = (activeConnections - 1) + 1
            /\ callerState' = [callerState EXCEPT ![c] = "idle", ![last] = "holding"]
            /\ callerConn' = [callerConn EXCEPT ![c] = NoConn, ![last] = callerConn[c]]
            /\ waitingQueue' = SubSeq(waitingQueue, 1, Len(waitingQueue) - 1)
       ELSE /\ connections' = SetInUse(callerConn[c], FALSE)
            /\ activeConnections' = activeConnections - 1
            /\ callerState' = [callerState EXCEPT ![c] = "idle"]
            /\ callerConn' = [callerConn EXCEPT ![c] = NoConn]
            /\ UNCHANGED waitingQueue
    /\ UNCHANGED <<opened, stmtVars>>

\* releaseConnection(connection), called by the caller that holds it
releaseConnection(c) ==
    /\ callerState[c] = "holding"
    /\ IF Len(waitingQueue) > 0
       THEN \* the released connection is handed to the head of the queue
            /\ connections' = SetInUse(callerConn[c], TRUE)
            /\ activeConnections' = (activeConnections - 1) + 1
            /\ callerState' = [callerState EXCEPT ![c] = "idle",
                                                  ![Head(waitingQueue)] = "holding"]
            /\ callerConn' = [callerConn EXCEPT ![c] = NoConn,
                                                ![Head(waitingQueue)] = callerConn[c]]
            /\ waitingQueue' = Tail(waitingQueue)
       ELSE /\ connections' = SetInUse(callerConn[c], FALSE)
            /\ activeConnections' = activeConnections - 1
            /\ callerState' = [callerState EXCEPT ![c] = "idle"]
            /\ callerConn' = [callerConn EXCEPT ![c] = NoConn]
            /\ UNCHANGED waitingQueue
    /\ UNCHANGED <<opened, stmtVars>>

\* try { ... } finally { releaseConnection }, with the release after the try body
runsFinally_OnSuccess(ok) == ok

\* try { ... } finally { releaseConnection }: the finally block runs whether
\* the query resolved (ok) or rejected
runsFinally(ok) == TRUE

\* executeQuery resumed after the callback of connection.db[method]: the query
\* settles and the caller leaves executeQuery
executeQuery_settled(c, ok) ==
    /\ callerState[c] = "holding"
    /\ IF runsFinally(ok)
       THEN /\ releaseConnection(c)
            /\ lastQuery' = IF ok THEN "resolved" ELSE "rejected"
       ELSE /\ callerState' = [callerState EXCEPT ![c] = "idle"]
            /\ callerConn' = [callerConn EXCEPT ![c] = NoConn]
            /\ lastQuery' = "rejected"
            /\ UNCHANGED <<connections, activeConnections, waitingQueue, opened,
                           preparedOn, runsOn, closeState>>

\* executePreparedStatement(name, params): the cached statement starts to run
\* on the connection it was compiled on; no connection is acquired
executePreparedStatement(c) ==
    /\ callerState[c] = "idle"
    /\ preparedOn # NoConn              \* else: 'Statement preparado nao encontrado'
    /\ callerState' = [callerState EXCEPT ![c] = "prepared"]
    /\ runsOn' = [runsOn EXCEPT ![c] = preparedOn]
    /\ UNCHANGED <<connections, activeConnections, waitingQueue, callerConn, opened,
                   preparedOn, closeState, lastQuery>>

\* the callback of prepared.statement.run is called
preparedStatementDone(c) ==
    /\ callerState[c] = "prepared"
    /\ callerState' = [callerState EXCEPT ![c] = "idle"]
    /\ runsOn' = [runsOn EXCEPT ![c] = NoConn]
    /\ UNCHANGED <<connections, activeConnections, waitingQueue, callerConn, opened,
                   preparedOn, closeState, lastQuery>>

\* close() up to its await: the cached statements are finalized and cleared,
\* db.close() is called on every connection of the pool
close_begin ==
    /\ closeState = "open"
    /\ preparedOn' = NoConn
    /\ closeState' = "closing"
    /\ UNCHANGED <<connections, activeConnections, waitingQueue, callerState, callerConn,
                   opened, runsOn, lastQuery>>

\* close() resumed after Promise.all(closePromises): the pool is reset
close_reset ==
    /\ closeState = "closing"
    /\ connections' = <<>>
    /\ activeConnections' = 0
    /\ waitingQueue' = <<>>
    /\ closeState' = "closed"
    /\ UNCHANGED <<callerState, callerConn, opened, preparedOn, runsOn, lastQuery>>

(***************************************************************************)
(* ObjectPool  (MemoryPool, src/unnamed/part_012)                          *)
(***************************************************************************)
VARIABLES
    pools,      \* this.pools: type tag -> [available (list), active (set)] of instances
    objData,    \* the payload (obj.data) of every instance created so far
    objType,    \* obj.type of every instance created so far
    idleTime,   \* Date.now() - obj.lastUsed of the available instances, in sweep ticks
    arrays,     \* heap of the array values referenced by "messages" fields
    metrics,    \* this.metrics
    swept,      \* the instances the latest call, a cleanup, removed (observer)
    lastRelease \* the latest call, a release: type tag, instance, return value (observer)

poolVars == <<pools, objData, objType, idleTime, arrays, metrics, swept, lastRelease>>

\* number of instances the factories may construct
MaxObjects == 2
\* config.maxSize (scaled down): capacity of one available list
maxSize == 1
\* config.maxAge (scaled down), in ticks
maxAge == 1
\* caps of the counters hits/reuses and cleanups
MaxHits == 2
MaxCleanups == 1
\* longest array a holder builds
MaxArrLen == 1

Objs == 1..MaxObjects
ArrIds == 1..(MaxObjects + 1)
PoolTypes == {"conversation", "message"}
\* values a holder writes into an instance
Payloads == {"p1"}

\* a record without fields
EmptyObj == [f \in {} |-> NULL]

\* array ids referenced by some instance
ReferencedArrays == {objData[o]["messages"] : o \in {x \in Objs : "messages" \in DOMAIN objData[x]}}

\* a new array value ([]): the least array id nothing refers to
FreshArray ==
    CHOOSE a \in ArrIds : a \notin ReferencedArrays /\ \A b \in ArrIds : b < a => b \in ReferencedArrays

\* MemoryPool.factories: the payload of a new instance
factories(type) ==
    IF type = "conversation"
    THEN [id |-> NULL, messages |-> FreshArray, metadata |-> {}, startTime |-> NULL,
          endTime |-> NULL, context |-> {}]
    ELSE [id |-> NULL, timestamp |-> NULL, sender |-> NULL, content |-> NULL,
          type |-> "text", metadata |-> {}]

EmptyPool == [available |-> <<>>, active |-> {}]

\* getPool(type): a type tag without an entry in this.pools has an empty pool,
\* created on first use and deleted by cleanup when empty
getPool(type) == pools[type]

\* this.pools after the pool of the type tag was updated
SetPool(type, pool) == [pools EXCEPT ![type] = pool]

\* instances constructed so far
Created == {o \in Objs : objType[o] # NULL}

\* let objToRelease = null: no instance
NoObj == 0

\* no release was the latest call
NoRelease == [type |-> "none", obj |-> NoObj, returned |-> FALSE]

PoolInit ==
    /\ pools = [t \in PoolTypes |-> EmptyPool]
    /\ objData = [o \in Objs |-> EmptyObj]
    /\ objType = [o \in Objs |-> NULL]
    /\ idleTime = [o \in Objs |-> 0]
    /\ arrays = [a \in ArrIds |-> <<>>]
    /\ metrics = [hits |-> 0, misses |-> 0, creates |-> 0, reuses |-> 0,
                  cleanups |-> 0, totalObjects |-> 0]
    /\ swept = {}
    /\ lastRelease = NoRelease

\* the elements of the array the "messages" field of payload d refers to
MessagesOf(d) == IF "messages" \in DOMAIN d THEN arrays[d["messages"]] ELSE <<>>

\* get(type, factory); lastUsed of a checked-out instance is not read before
\* release overwrites it, so its idle time is kept at 0
get(type) ==
    LET pool == getPool(type) IN
    IF Len(pool.available) > 0
    THEN LET obj == pool.available[Len(pool.available)] IN     \* available.pop()
         /\ metrics.hits < MaxHits
         /\ pools' = SetPool(type, [available |-> SubSeq(pool.available, 1, Len(pool.available) - 1),
                                    active |-> pool.active \cup {obj}])
         /\ idleTime' = [idleTime EXCEPT ![obj] = 0]
         /\ metrics' = [metrics EXCEPT !.hits = @ + 1, !.reuses = @ + 1]
         /\ UNCHANGED <<objData, objType, arrays>>
    ELSE LET obj == metrics.creates + 1 IN
         /\ obj \in Objs
         /\ objData' = [objData EXCEPT ![obj] = factories(type)]
         /\ objType' = [objType EXCEPT ![obj] = type]
         /\ arrays' = IF type = "conversation" THEN [arrays EXCEPT ![FreshArray] = <<>>] ELSE arrays
         /\ pools' = SetPool(type, [pool EXCEPT !.active = @ \cup {obj}])
         /\ metrics' = [metrics EXCEPT !.misses = @ + 1, !.creates = @ + 1, !.totalObjects = @ + 1]
         /\ UNCHANGED idleTime

\* Object.assign(d, upd)
Assign(d, upd) ==
    [f \in (DOMAIN d) \cup (DOMAIN upd) |-> IF f \in DOMAIN upd THEN upd[f] ELSE d[f]]

\* the reset routine of releaseConversation, without its obj.messages.length = 0
conversationReset(d) ==
    Assign(d, [id |-> NULL, metadata |-> {}, startTime |-> NULL, endTime |-> NULL, context |-> {}])

\* the reset routine of releaseMessage
messageReset(d) ==
    Assign(d, [id |-> NULL, timestamp |-> NULL, sender |-> NULL, content |-> NULL,
               type |-> "text", metadata |-> {}])

\* the test of release before available.push, always passing
hasRoom_Always(pool) == TRUE

\* pool.available.length < this.config.maxSize
hasRoom(pool) == Len(pool.available) < maxSize

\* the search of release, over the active sets of every type tag
objToRelease_AnyPool(pool, obj) ==
    IF \E t \in PoolTypes : obj \in pools[t].active THEN obj ELSE NoObj

\* the search of release: the active instance of the pool whose payload is
\* data, or null
objToRelease(pool, obj) == IF obj \in pool.active THEN obj ELSE NoObj

\* release that forgets pool.active.delete(objToRelease) on the path to the available list
release_KeepsActive(type, obj) ==
    LET pool == getPool(type) IN
    /\ obj \in Created
    /\ IF objToRelease(pool, obj) = NoObj
       THEN /\ pools' = SetPool(type, pool)
            /\ UNCHANGED <<objData, objType, idleTime, arrays, metrics>>
       ELSE /\ objData' = [objData EXCEPT ![obj] =
                             IF type = "conversation" THEN conversationReset(@) ELSE messageReset(@)]
            /\ arrays' = IF type = "conversation"
                         THEN [arrays EXCEPT ![objData[obj]["messages"]] = <<>>]
                         ELSE arrays
            /\ IF hasRoom(pool)
               THEN /\ pools' = SetPool(type, [available |-> Append(pool.available, obj),
                                               active |-> pool.active])
                    /\ UNCHANGED metrics
               ELSE /\ pools' = SetPool(type, [pool EXCEPT !.active = @ \ {obj}])
                    /\ metrics' = [metrics EXCEPT !.totalObjects = @ - 1]
            /\ UNCHANGED <<objType, idleTime>>

\* release(type, data, resetFn) for the instance whose payload is data, with the
\* reset routine of the convenience method of the type
release(type, obj) ==
    LET pool == getPool(type) IN
    /\ obj \in Created
    /\ IF objToRelease(pool, obj) = NoObj
       THEN \* return false
            /\ pools' = SetPool(type, pool)
            /\ UNCHANGED <<objData, objType, idleTime, arrays, metrics>>
       ELSE /\ objData' = [objData EXCEPT ![obj] =
                             IF type = "conversation" THEN conversationReset(@) ELSE messageReset(@)]
            /\ arrays' = IF type = "conversation"
                         THEN [arrays EXCEPT ![objData[obj]["messages"]] = <<>>]
                         ELSE arrays
            /\ IF hasRoom(pool)
               THEN /\ pools' = SetPool(type, [available |-> Append(pool.available, obj),
                                               active |-> pool.active \ {obj}])
                    /\ UNCHANGED metrics
               ELSE /\ pools' = SetPool(type, [pool EXCEPT !.active = @ \ {obj}])
                    /\ metrics' = [metrics EXCEPT !.totalObjects = @ - 1]
            /\ UNCHANGED <<objType, idleTime>>

getConversation == get("conversation")

getMessage == get("message")

releaseConversation(obj) == release("conversation", obj)

releaseMessage(obj) == release("message", obj)

\* instances checked out under some type tag
ActiveObjs == UNION {pools[t].active : t \in PoolTypes}

\* instances whose messages field refers to array a
Referrers(a) == {o \in Objs : "messages" \in DOMAIN objData[o] /\ objData[o]["messages"] = a}

\* handleConversationStarted: Object.assign(conversation, {id, startTime, endTime: null, ...})
assignConversation(obj, p) ==
    /\ obj \in ActiveObjs
    /\ objType[obj] = "conversation"
    /\ LET a == IF Referrers(objData[obj]["messages"]) = {obj}
                THEN objData[obj]["messages"]     \* the old array is garbage: its id is reused
                ELSE FreshArray IN
       /\ objData' = [objData EXCEPT ![obj] =
              Assign(@, [id |-> p, startTime |-> p, endTime |-> NULL, context |-> {p},
                         messages |-> a, metadata |-> {p}])]
       /\ arrays' = [arrays EXCEPT ![a] = <<>>]
    /\ UNCHANGED <<pools, objType, idleTime, metrics>>

\* insertConversation: Object.assign(conversationObj, conversation)
copyConversation(dst, src) ==
    /\ dst \in ActiveObjs /\ src \in ActiveObjs
    /\ dst # src
    /\ objType[dst] = "conversation" /\ objType[src] = "conversation"
    /\ objData' = [objData EXCEPT ![dst] = Assign(@, objData[src])]
    /\ arrays' = IF Referrers(objData[dst]["messages"]) = {dst}
                 THEN [arrays EXCEPT ![objData[dst]["messages"]] = <<>>]   \* garbage
                 ELSE arrays
    /\ UNCHANGED <<pools, objType, idleTime, metrics>>

\* handleMessageAdded: Object.assign(message, {id, conversationId, sender, ...})
assignMessage(obj, p) ==
    /\ obj \in ActiveObjs
    /\ objType[obj] = "message"
    /\ objData' = [objData EXCEPT ![obj] =
           Assign(@, [id |-> p, conversationId |-> p, sender |-> p, content |-> p,
                      type |-> "text", timestamp |-> p, metadata |-> {p}])]
    /\ UNCHANGED <<pools, objType, idleTime, arrays, metrics>>

\* a holder appends to the messages list of its conversation
pushMessage(obj, p) ==
    /\ obj \in ActiveObjs
    /\ objType[obj] = "conversation"
    /\ Len(arrays[objData[obj]["messages"]]) < MaxArrLen
    /\ arrays' = [arrays EXCEPT ![objData[obj]["messages"]] = Append(@, p)]
    /\ UNCHANGED <<pools, objData, objType, idleTime, metrics>>

\* the age test of cleanup, also true at exactly maxAge
expired_AtMaxAge(o) == idleTime[o] >= maxAge

\* age > this.config.maxAge
expired(o) == idleTime[o] > maxAge

\* cleanup()
cleanup ==
    /\ metrics.cleanups < MaxCleanups
    /\ LET kept(t) == SelectSeq(pools[t].available, LAMBDA o : ~expired(o))
           cleanedCount(t) == Len(pools[t].available) - Len(kept(t))
           RECURSIVE Sum(_)
           Sum(T) == IF T = {} THEN 0
                     ELSE LET t == CHOOSE x \in T : TRUE IN cleanedCount(t) + Sum(T \ {t})
       IN /\ pools' = [t \in PoolTypes |-> [pools[t] EXCEPT !.available = kept(t)]]
          /\ metrics' = [metrics EXCEPT !.totalObjects = @ - Sum(PoolTypes),
                                        !.cleanups = @ + 1]
          /\ idleTime' = [o \in Objs |-> IF \E t \in PoolTypes : o \in Range(kept(t))
                                         THEN idleTime[o] ELSE 0]
    /\ UNCHANGED <<objData, objType, arrays>>

\* number of instances in the available lists of the type tags in T
RECURSIVE AvailableCount(_)
AvailableCount(T) ==
    IF T = {} THEN 0
    ELSE LET t == CHOOSE x \in T : TRUE IN Len(pools[t].available) + AvailableCount(T \ {t})

\* clear()
clear ==
    /\ AvailableCount(PoolTypes) > 0
    /\ pools' = [t \in PoolTypes |-> [pools[t] EXCEPT !.available = <<>>]]
    /\ metrics' = [metrics EXCEPT !.totalObjects = @ - AvailableCount(PoolTypes)]
    /\ idleTime' = [o \in Objs |-> 0]
    /\ UNCHANGED <<objData, objType, arrays>>

\* destroy(): clear(), then this.pools.clear()
destroy ==
    /\ \E t \in PoolTypes : pools[t] # EmptyPool
    /\ pools' = [t \in PoolTypes |-> EmptyPool]
    /\ metrics' = [metrics EXCEPT !.totalObjects = @ - AvailableCount(PoolTypes)]
    /\ idleTime' = [o \in Objs |-> 0]
    /\ UNCHANGED <<objData, objType, arrays>>

\* instances in the available list of some type tag
AvailableObjs == UNION {Range(pools[t].available) : t \in PoolTypes}

\* time passes: the available instances grow older (ages past maxAge are alike)
Tick ==
    /\ \E o \in AvailableObjs : idleTime[o] <= maxAge
    /\ idleTime' = [o \in Objs |-> IF o \in AvailableObjs /\ idleTime[o] <= maxAge
                                   THEN idleTime[o] + 1 ELSE idleTime[o]]
    /\ UNCHANGED <<pools, objData, objType, arrays, metrics>>

(***************************************************************************)
(* EventBus  (src/unnamed/part_009)                                        *)
(***************************************************************************)
VARIABLES
    eventBuffer,     \* this.eventBuffer: events not flushed yet, in publish order
    listeners,       \* the listeners registered per name, in order: [kind, caught, wrapped, id]
    subscriberCount, \* this.metrics.subscribers
    busMetrics,      \* this.metrics: eventsEmitted, eventsProcessed, eventsFailed
    nextEventId,     \* generateEventId: ids are unique
    flushCount,      \* number of flush batches taken from the buffer so far
    dispatched,      \* the calls of emit so far, in order (observer)
    lastCall,        \* the publishing call that has just returned (observer)
    retries,         \* emitWithRetry calls suspended in their delay
    handles,         \* the unsubscribe functions subscribe has returned: [event, id]
    flushTimer       \* this.flushTimer is running

busVars == <<eventBuffer, listeners, subscriberCount, busMetrics, nextEventId, flushCount,
             dispatched, lastCall, retries, handles, flushTimer>>

\* this.bufferSize (scaled down)
bufferSize == 3
\* number of calls of emitBuffered made from outside the handlers
MaxEvents == 3
\* number of calls of subscribe
MaxSubscriptions == 2

\* config.maxRetries (scaled down)
maxRetries == 2
\* config.retryDelay, in ms
retryDelay == 1000

Priorities == {"critical", "high", "normal", "low"}
EventNames == {"evA", "evB"}
\* an event name in the namespace system, and the wildcard name of that namespace
SystemEvents == {"system.health"}
Patterns == {"system.*"}
ListenerNames == EventNames \cup SystemEvents \cup Patterns
\* what a handler does when invoked: return, throw, or publish FollowUp itself
HandlerKinds == {"returns", "throws", "publishes"}
\* a listener that throws only while eventData.retryCount is 0
RawKinds == {"throws", "throwsFirst"}
\* the event a publishing handler emits (with priority normal)
FollowUp == "evB"

\* peak: the largest length the buffer had after a push made during the call
NoCall == [priority |-> "none", backlog |-> {}, peak |-> 0]

BusInit ==
    /\ eventBuffer = <<>>
    /\ listeners = [n \in ListenerNames |-> <<>>]
    /\ subscriberCount = [n \in ListenerNames |-> 0]
    /\ busMetrics = [eventsEmitted |-> 0, eventsProcessed |-> 0, eventsFailed |-> 0]
    /\ nextEventId = 1
    /\ flushCount = 0
    /\ dispatched = <<>>
    /\ lastCall = NoCall
    /\ retries = {}
    /\ handles = {}
    /\ flushTimer = TRUE

\* the tier of a priority: critical > high > normal > low
Tier(p) == CASE p = "critical" -> 3 [] p = "high" -> 2 [] p = "normal" -> 1 [] OTHER -> 0

\* the sort key of flushBuffer: priorities[p] || 1
priorities(p) == IF Tier(p) = 0 THEN 1 ELSE Tier(p)

\* events.sort((a, b) => key(b) - key(a)): stable, descending by key
sortedEvents(events) ==
    SelectSeq(events, LAMBDA e : priorities(e.priority) = 3)
    \o SelectSeq(events, LAMBDA e : priorities(e.priority) = 2)
    \o SelectSeq(events, LAMBDA e : priorities(e.priority) = 1)

\* this.eventBuffer.length >= this.bufferSize, with the test left out
bufferFull_Never(length) == FALSE

\* this.eventBuffer.length >= this.bufferSize
bufferFull(length) == length >= bufferSize

\* the condition of emitBuffered for an immediate flush
shouldFlush_SizeOnly(priority, length) == bufferFull(length)

shouldFlush(priority, length) == priority = "critical" \/ bufferFull(length)

\* The bus state a synchronous call works on
BusState == [buf |-> eventBuffer, nid |-> nextEventId, batches |-> flushCount,
             emitted |-> busMetrics.eventsEmitted, processed |-> busMetrics.eventsProcessed,
             failed |-> busMetrics.eventsFailed, log |-> dispatched, pending |-> retries,
             invoked |-> 0, threw |-> FALSE, peak |-> 0]

\* wrapHandler(handler) without its try/catch
wrapHandler_Rethrows(kind, id) == [kind |-> kind, caught |-> FALSE, wrapped |-> TRUE, id |-> id]

\* wrapHandler(handler): the listener that subscribe registers, a new function
\* on every call (id tells the functions apart)
wrapHandler(kind, id) == [kind |-> kind, caught |-> TRUE, wrapped |-> TRUE, id |-> id]

\* the listener throws into emit although the wrapper of subscribe caught the
\* error of the handler
Throws_AlsoCaught(listener, retryCount) ==
    \/ listener.kind = "throws"
    \/ listener.kind = "throwsFirst" /\ retryCount = 0

\* the listener throws into emit when invoked with eventData.retryCount = retryCount
Throws(listener, retryCount) ==
    /\ ~listener.caught
    /\ \/ listener.kind = "throws"
       \/ listener.kind = "throwsFirst" /\ retryCount = 0

\* the wildcard name covers the event name: 'system.*' and the names system.<x>
Matches(pattern, event) == pattern = "system.*" /\ event \in SystemEvents

\* number of listeners registered under a wildcard name that covers the event
Matching(event) ==
    IF \E q \in Patterns : Matches(q, event)
    THEN Len(listeners[CHOOSE q \in Patterns : Matches(q, event)])
    ELSE 0

\* EventEmitter.emit(event, ...): the listeners registered under exactly this name
listenersFor(event) == listeners[event]

\* the delay before the retry that follows failed attempt number retry
backoff_Constant(retry) == retryDelay

backoff(retry) == retryDelay * 2^retry

RECURSIVE emitBufferedOn(_, _, _), flushBufferOn(_), processEvents(_, _, _),
          runHandlers(_, _, _, _), processEventOn(_, _, _, _, _)

\* emitBuffered(event, data, {priority}) on bus state st
emitBufferedOn(st, event, priority) ==
    LET pushed == [st EXCEPT !.buf = Append(@, [id |-> st.nid, event |-> event,
                                                priority |-> priority]),
                             !.nid = @ + 1,
                             !.peak = IF Len(st.buf) + 1 > @ THEN Len(st.buf) + 1 ELSE @]
        flushed == IF shouldFlush(priority, Len(pushed.buf))
                   THEN flushBufferOn(pushed) ELSE pushed
    IN [flushed EXCEPT !.emitted = @ + 1]

\* flushBuffer() on bus state st
flushBufferOn(st) ==
    IF Len(st.buf) = 0 THEN st
    ELSE LET n == Min(Len(st.buf), bufferSize)
             events == SubSeq(st.buf, 1, n)                 \* splice(0, bufferSize)
             rest == SubSeq(st.buf, n + 1, Len(st.buf))
         IN processEvents([st EXCEPT !.buf = rest, !.batches = @ + 1],
                          sortedEvents(events), st.batches + 1)

\* the loop of flushBuffer over the sorted events of batch number batch
processEvents(st, events, batch) ==
    IF events = <<>> THEN st
    ELSE processEvents(processEventOn(st, Head(events), batch, 0, 0), Tail(events), batch)

\* processEvent / emitWithRetry: attempt number retry of this.emit(event, data,
\* eventData), made after a delay of waited ms
processEventOn(st, e, batch, retry, waited) ==
    LET at == Len(st.log) + 1
        called == [st EXCEPT !.log = Append(@, [id |-> e.id, event |-> e.event,
                                                priority |-> e.priority, batch |-> batch,
                                                retry |-> retry, waited |-> waited,
                                                registered |-> Len(listeners[e.event]),
                                                matching |-> Matching(e.event),
                                                invoked |-> 0, threw |-> FALSE])]
        ran == runHandlers(called, listenersFor(e.event), retry, 0)
        emitted == [ran EXCEPT !.log[at].invoked = ran.invoked, !.log[at].threw = ran.threw]
    IN IF ~ran.threw THEN [emitted EXCEPT !.processed = @ + 1]
       ELSE IF retry < maxRetries
       THEN [emitted EXCEPT !.pending = @ \cup {[id |-> e.id, event |-> e.event,
                                                 priority |-> e.priority, batch |-> batch,
                                                 retry |-> retry + 1,
                                                 delay |-> backoff(retry)]}]
       ELSE [emitted EXCEPT !.failed = @ + 1]

\* emit: the listeners of one event are invoked in registration order until one
\* throws; n listeners have been invoked so far
runHandlers(st, handlers, retryCount, n) ==
    IF handlers = <<>> THEN [st EXCEPT !.invoked = n, !.threw = FALSE]
    ELSE IF Throws(Head(handlers), retryCount) THEN [st EXCEPT !.invoked = n + 1, !.threw = TRUE]
    ELSE runHandlers(IF Head(handlers).kind = "publishes"
                     THEN emitBufferedOn(st, FollowUp, "normal")
                     ELSE st,
                     Tail(handlers), retryCount, n + 1)

\* the bus variables after a synchronous call left bus state st
BusBecomes(st, call) ==
    \E s \in {st} :
        /\ lastCall' = [call EXCEPT !.peak = s.peak]
        /\ eventBuffer' = s.buf
        /\ nextEventId' = s.nid
        /\ flushCount' = s.batches
        /\ busMetrics' = [busMetrics EXCEPT !.eventsEmitted = s.emitted,
                                            !.eventsProcessed = s.processed,
                                            !.eventsFailed = s.failed]
        /\ dispatched' = s.log
        /\ retries' = s.pending

\* a call of emitBuffered from outside the handlers
emitBuffered(event, priority) ==
    /\ busMetrics.eventsEmitted < MaxEvents
    /\ BusBecomes(emitBufferedOn(BusState, event, priority),
                  [NoCall EXCEPT !.priority = priority,
                                 !.backlog = {eventBuffer[i].id : i \in 1..Len(eventBuffer)}
                                                 \cup {nextEventId}])
    /\ UNCHANGED <<listeners, subscriberCount, handles, flushTimer>>

\* the flush timer fires (startBufferFlush)
flushBuffer ==
    /\ flushTimer
    /\ Len(eventBuffer) > 0
    /\ BusBecomes(flushBufferOn(BusState), NoCall)
    /\ UNCHANGED <<listeners, subscriberCount, handles, flushTimer>>

\* the delay of a suspended emitWithRetry is over: the next attempt is made
retryTimer(r) ==
    /\ r \in retries
    /\ BusBecomes(processEventOn([BusState EXCEPT !.pending = @ \ {r}],
                                 [id |-> r.id, event |-> r.event, priority |-> r.priority],
                                 r.batch, r.retry, r.delay), NoCall)
    /\ UNCHANGED <<listeners, subscriberCount, handles, flushTimer>>

RECURSIVE SumOver(_, _)
SumOver(f, S) == IF S = {} THEN 0 ELSE LET x == CHOOSE y \in S : TRUE IN f[x] + SumOver(f, S \ {x})

\* number of listeners registered, through subscribe or on
Registered == SumOver([n \in ListenerNames |-> Len(listeners[n])], ListenerNames)

\* subscribe(event, handler)
subscribe(event, kind) ==
    /\ Registered < MaxSubscriptions
    /\ kind = "publishes" => event # FollowUp
    /\ LET id == Cardinality(handles) + 1 IN
         /\ listeners' = [listeners EXCEPT ![event] = Append(@, wrapHandler(kind, id))]
         /\ handles' = handles \cup {[event |-> event, id |-> id]}   \* the function returned
    /\ subscriberCount' = [subscriberCount EXCEPT ![event] = @ + 1]
    /\ lastCall' = NoCall
    /\ UNCHANGED <<eventBuffer, busMetrics, nextEventId, flushCount, dispatched, retries,
                   flushTimer>>

\* on(event, listener), inherited from EventEmitter: the listener is not wrapped
on(event, kind) ==
    /\ Registered < MaxSubscriptions
    /\ listeners' = [listeners EXCEPT ![event] = Append(@, [kind |-> kind, caught |-> FALSE, wrapped |-> FALSE, id |-> 0])]
    /\ lastCall' = NoCall
    /\ UNCHANGED <<eventBuffer, subscriberCount, busMetrics, nextEventId, flushCount,
                   dispatched, retries, handles, flushTimer>>

\* the function subscribe returned is called: unsubscribe(event, wrappedHandler)
unsubscribe(h) ==
    /\ h \in handles
    /\ listeners' = [listeners EXCEPT ![h.event] = SelectSeq(@, LAMBDA l : l.id # h.id)]
    /\ subscriberCount' = [subscriberCount EXCEPT ![h.event] = IF @ > 0 THEN @ - 1 ELSE @]
    /\ lastCall' = NoCall
    /\ UNCHANGED <<eventBuffer, busMetrics, nextEventId, flushCount, dispatched, retries,
                   handles, flushTimer>>

\* destroy(): a last flush, the timer is stopped, removeAllListeners()
destroy_bus ==
    /\ flushTimer
    /\ BusBecomes(flushBufferOn(BusState), NoCall)
    /\ flushTimer' = FALSE
    /\ listeners' = [n \in ListenerNames |-> <<>>]
    /\ UNCHANGED <<subscriberCount, handles>>

(***************************************************************************)
(* WorkerPool  (StreamProcessor, src/unnamed/part_011)                     *)
(***************************************************************************)
VARIABLES
    workerPool,     \* this.workerPool: the workers that came online, each with its jobCount
    starting,       \* initializeWorkerPool is still creating workers
    activeJobs,     \* this.activeJobs: the task ids in the in-flight job table
    tasks,          \* per task id: its handle, its worker, its listener and timer
    wpMetrics,      \* this.metrics (backpressureEvents)
    saturations,    \* times the utilisation rose above the threshold (observer)
    destroyState,   \* destroy(): "none" (not called), "waiting" (polling), "terminated"
    activeJobIds    \* destroy(): the job ids it waits for

wpVars == <<workerPool, starting, activeJobs, tasks, wpMetrics, saturations,
            destroyState, activeJobIds>>

\* config.concurrency: Math.max(2, Math.floor(4 / 2))
concurrency == 2
\* config.backpressureThreshold = 0.8, in tenths
backpressureThreshold == 8
\* number of tasks submitted
MaxTasks == 3
\* cap of the counter backpressureEvents
MaxBackpressure == 2

TaskIds == 1..MaxTasks

\* a task id not used yet
NoTask == [handle |-> "none", worker |-> 0, listening |-> FALSE, timer |-> FALSE,
           replied |-> FALSE, result |-> 0]

WorkerInit ==
    /\ workerPool = <<>>
    /\ starting = TRUE
    /\ activeJobs = {}
    /\ tasks = [t \in TaskIds |-> NoTask]
    /\ wpMetrics = [backpressureEvents |-> 0]
    /\ saturations = 0
    /\ destroyState = "none"
    /\ activeJobIds = {}

\* initializeWorkerPool: the next worker is online and is pushed into the pool
workerOnline ==
    /\ starting
    /\ Len(workerPool) < concurrency
    /\ workerPool' = Append(workerPool, [jobCount |-> 0])
    /\ starting' = (Len(workerPool) + 1 < concurrency)
    /\ UNCHANGED <<activeJobs, tasks, wpMetrics, saturations, destroyState, activeJobIds>>

\* createWorker rejects (worker 'error'): initializeWorkerPool stops
workerStartFails ==
    /\ starting
    /\ starting' = FALSE
    /\ UNCHANGED <<workerPool, activeJobs, tasks, wpMetrics, saturations, destroyState, activeJobIds>>

\* the callback of the reduce in getAvailableWorker
lessLoaded(min, worker) ==
    IF workerPool[worker].jobCount
         < (IF workerPool[min].jobCount = 0 THEN 1000000 ELSE workerPool[min].jobCount)  \* || Infinity
    THEN worker ELSE min

\* workerPool.reduce(callback) over the workers from index i on, without initial value
RECURSIVE reduceFrom(_, _)
reduceFrom(min, i) ==
    IF i > Len(workerPool) THEN min ELSE reduceFrom(lessLoaded(min, i), i + 1)

\* getAvailableWorker: the index of the chosen worker (the pool is not empty)
getAvailableWorker == reduceFrom(1, 2)

\* utilization > this.config.backpressureThreshold for a job table of n entries
Saturated(n) == n * 10 > backpressureThreshold * concurrency

\* the next task id (generateTaskId: ids are unique)
NextTask == Cardinality({t \in TaskIds : tasks[t].handle # "none"}) + 1

\* executeWorkerTask(type, data) up to the return of its promise
executeWorkerTask ==
    LET t == NextTask IN
    /\ t \in TaskIds
    /\ IF Len(workerPool) = 0
       THEN \* reduce of an empty array throws: the handle is rejected
            /\ tasks' = [tasks EXCEPT ![t] = [NoTask EXCEPT !.handle = "error"]]
            /\ UNCHANGED <<workerPool, activeJobs, saturations>>
       ELSE LET w == getAvailableWorker IN
            /\ workerPool' = [workerPool EXCEPT ![w].jobCount = @ + 1]
            /\ tasks' = [tasks EXCEPT ![t] = [handle |-> "pending", worker |-> w,
                                              listening |-> TRUE, timer |-> TRUE,
                                              replied |-> FALSE, result |-> 0]]
            /\ activeJobs' = activeJobs \cup {t}
            /\ saturations' = IF ~Saturated(Cardinality(activeJobs))
                                 /\ Saturated(Cardinality(activeJobs) + 1)
                              THEN saturations + 1 ELSE saturations
    /\ UNCHANGED <<starting, wpMetrics, destroyState, activeJobIds>>

\* releaseWorker(worker)
releaseWorker(pool, w) ==
    IF pool[w].jobCount > 0 THEN [pool EXCEPT ![w].jobCount = @ - 1] ELSE pool

\* releaseWorker(worker), once per handler that accepted the message
RECURSIVE releaseEach(_, _, _)
releaseEach(pool, w, n) ==
    IF n = 0 THEN pool ELSE releaseEach(releaseWorker(pool, w), w, n - 1)

\* messageHandler without its test of the id
messageHandler_AnyId(taskId, messageId) == TRUE

\* messageHandler of task taskId: if (message.id === taskId)
messageHandler(taskId, messageId) == messageId = taskId

\* the worker posts its reply for task t: the message goes to every
\* messageHandler still registered on that worker
workerReplies(t, success) ==
    LET w == tasks[t].worker
        accepting == {u \in TaskIds : /\ tasks[u].listening
                                      /\ tasks[u].worker = w
                                      /\ messageHandler(u, t)}
    IN
    /\ tasks[t].handle \in {"pending", "timeout"}
    /\ ~tasks[t].replied
    /\ tasks[t].listening
    /\ destroyState # "terminated"    \* a terminated worker posts nothing
    /\ workerPool' = releaseEach(workerPool, w, Cardinality(accepting))
    /\ tasks' = [u \in TaskIds |->
                    LET posted == IF u = t THEN [tasks[u] EXCEPT !.replied = TRUE] ELSE tasks[u]
                    IN IF u \in accepting
                       THEN [posted EXCEPT
                                !.listening = FALSE,        \* removeListener
                                !.timer = FALSE,            \* clearTimeout
                                !.handle = IF @ = "pending"
                                           THEN (IF success THEN "resolved" ELSE "rejected")
                                           ELSE @,          \* a settled promise stays settled
                                !.result = IF tasks[u].handle = "pending" THEN t ELSE @]
                       ELSE posted]
    /\ UNCHANGED <<starting, activeJobs, wpMetrics, saturations, destroyState, activeJobIds>>

\* the timer of task t fires: reject(new Error('Worker task timeout'))
workerTimeout(t) ==
    /\ tasks[t].timer
    /\ tasks' = [tasks EXCEPT ![t].timer = FALSE,
                              ![t].handle = IF @ = "pending" THEN "timeout" ELSE @]
    /\ UNCHANGED <<workerPool, starting, activeJobs, wpMetrics, saturations, destroyState,
                   activeJobIds>>

\* getMetrics(), which calls checkBackpressure()
getMetrics ==
    /\ wpMetrics.backpressureEvents < MaxBackpressure
    /\ IF Saturated(Cardinality(activeJobs))
       THEN wpMetrics' = [wpMetrics EXCEPT !.backpressureEvents = @ + 1]  \* and emit('stream.backpressure')
       ELSE UNCHANGED wpMetrics
    /\ UNCHANGED <<workerPool, starting, activeJobs, tasks, saturations, destroyState,
                   activeJobIds>>

(***************************************************************************)

\* destroy() up to its await: isShuttingDown is set and the in-flight ids are read
destroy_worker ==
    /\ destroyState = "none"
    /\ destroyState' = "waiting"
    /\ activeJobIds' = activeJobs
    /\ UNCHANGED <<workerPool, starting, activeJobs, tasks, wpMetrics, saturations>>

\* destroy() resumed: every checkJob found its id gone from activeJobs, the
\* workers are terminated
terminateWorkers ==
    /\ destroyState = "waiting"
    /\ \A id \in activeJobIds : id \notin activeJobs
    /\ destroyState' = "terminated"
    /\ UNCHANGED <<workerPool, starting, activeJobs, tasks, wpMetrics, saturations, activeJobIds>>

(* Coordinator  (MicrobiomaDigitalOptimized, src/src/index-optimized.js)   *)
(* with the tables of DatabaseManagerOptimized.  A handler started by a    *)
(* flush runs up to its database call; the call completes in a later step, *)
(* in no fixed order with the calls of the other handlers.                 *)
(***************************************************************************)
VARIABLES
    published,       \* the events handed to emitBuffered, in order
    flushed,         \* how many of them have left the buffer
    handlerPc,       \* per event: where its handler stands
    conversations,   \* table conversations: per id, the row or NoRow
    messages,        \* table messages: the rows
    analysis,        \* table analysis: the rows
    pipelineOutput,  \* conversations handed to the stream processor
    systemMetrics,   \* this.systemMetrics
    realTime         \* this.config.processing?.realTime: "unloaded" before initialize()

coordVars == <<published, flushed, handlerPc, conversations, messages, analysis,
               pipelineOutput, systemMetrics, realTime>>

\* number of events published
MaxPublished == 4

Convs == {"c1"}
MsgIds == {"m1", "m2"}
Times == {1, 2}
EventIdx == 1..MaxPublished

\* no row for the key
NoRow == [stored |-> FALSE, end_time |-> 0]

\* SQL NULL in the column end_time
NullTime == NoRow.end_time

\* the timestamp a message carries
TimestampOf(m) == IF m = "m1" THEN 1 ELSE 2

CoordInit ==
    /\ published = <<>>
    /\ flushed = 0
    /\ handlerPc = [i \in EventIdx |-> "none"]
    /\ conversations = [c \in Convs |-> NoRow]
    /\ messages = {}
    /\ analysis = {}
    /\ pipelineOutput = {}
    /\ systemMetrics = [conversationsProcessed |-> 0, messagesProcessed |-> 0, errorCount |-> 0]
    /\ realTime = "unloaded"

\* the subscribed handler of an event runs up to its first database call
firstCall(e) ==
    CASE e.event = "conversation.started" -> "insertConversation"
      [] e.event = "message.added"        -> "insertMessage"
      [] e.event = "conversation.ended"   -> "findConversationById"

CountOf(evs, from, to, name) == Cardinality({i \in from..to : evs[i].event = name})

\* the coordinator's bus flushes: the buffered events from..to are dispatched
CoordDispatch(evs, to) ==
    /\ flushed' = to
    /\ handlerPc' = [i \in EventIdx |->
                        IF i > flushed /\ i <= to THEN firstCall(evs[i]) ELSE handlerPc[i]]
    /\ systemMetrics' = [systemMetrics EXCEPT
            !.conversationsProcessed = @ + CountOf(evs, flushed + 1, to, "conversation.started"),
            !.messagesProcessed = @ + CountOf(evs, flushed + 1, to, "message.added")]

\* initialize(): the configuration is loaded and the bus handlers are set up
initialize(processingRealTime) ==
    /\ realTime = "unloaded"
    /\ realTime' = processingRealTime
    /\ UNCHANGED <<published, flushed, handlerPc, conversations, messages, analysis,
                   pipelineOutput, systemMetrics>>

\* this.eventBus.emitBuffered(event, data) with the default priority
coordEmitBuffered(e) ==
    /\ realTime # "unloaded"
    /\ Len(published) < MaxPublished
    /\ published' = Append(published, e)
    /\ IF Len(published) + 1 - flushed >= bufferSize
       THEN CoordDispatch(Append(published, e), Len(published) + 1)
       ELSE UNCHANGED <<flushed, handlerPc, systemMetrics>>
    /\ UNCHANGED <<conversations, messages, analysis, pipelineOutput, realTime>>

publishStarted(c) == coordEmitBuffered([event |-> "conversation.started", id |-> c])

publishMessage(c, m) ==
    coordEmitBuffered([event |-> "message.added", id |-> m, conversationId |-> c,
                       timestamp |-> TimestampOf(m)])

publishEnded(c, t) == coordEmitBuffered([event |-> "conversation.ended", id |-> c, endTime |-> t])

\* the flush timer of the bus fires
coordFlushBuffer ==
    /\ flushed < Len(published)
    /\ CoordDispatch(published, Len(published))
    /\ UNCHANGED <<published, conversations, messages, analysis, pipelineOutput, realTime>>

\* a property of an event payload; undefined (NULL) if the payload has no such key
Field(e, key) == IF key \in DOMAIN e THEN e[key] ELSE NULL

\* SELECT * FROM conversations WHERE id = ?
findRow(id) == IF id \in Convs THEN conversations[id] ELSE NoRow

\* handleConversationStarted: the INSERT of insertConversation completes
insertConversation(i) ==
    LET data == published[i] IN
    /\ handlerPc[i] = "insertConversation"
    /\ IF ~conversations[data.id].stored
       THEN /\ conversations' = [conversations EXCEPT ![data.id] =
                                    [stored |-> TRUE, end_time |-> NullTime]]
            /\ UNCHANGED systemMetrics
       ELSE \* PRIMARY KEY conflict: caught by the subscriber
            /\ systemMetrics' = [systemMetrics EXCEPT !.errorCount = @ + 1]
            /\ UNCHANGED conversations
    /\ handlerPc' = [handlerPc EXCEPT ![i] = "done"]
    /\ UNCHANGED <<published, flushed, messages, analysis, pipelineOutput, realTime>>

\* handleMessageAdded: the INSERT INTO messages completes
insertMessage(i) ==
    LET data == published[i] IN
    /\ handlerPc[i] = "insertMessage"
    /\ IF conversations[data.conversationId].stored /\ (\A r \in messages : r.id # data.id)
       THEN /\ messages' = messages \cup {[id |-> data.id,
                                           conversation_id |-> data.conversationId,
                                           timestamp |-> data.timestamp]}
            /\ UNCHANGED systemMetrics
       ELSE \* FOREIGN KEY or PRIMARY KEY failure: caught by the subscriber
            /\ systemMetrics' = [systemMetrics EXCEPT !.errorCount = @ + 1]
            /\ UNCHANGED messages
    /\ handlerPc' = [handlerPc EXCEPT ![i] = "done"]
    /\ UNCHANGED <<published, flushed, conversations, analysis, pipelineOutput, realTime>>

\* what the conversation.ended subscriber does after handleConversationEnded returns
afterEnded == IF realTime = "on" THEN "processConversationStream" ELSE "done"

\* handleConversationEnded: findConversationById(data.id) completes
findConversationById(i) ==
    /\ handlerPc[i] = "findConversationById"
    /\ handlerPc' = [handlerPc EXCEPT ![i] =
            IF findRow(published[i].id).stored THEN "updateEndTime" ELSE afterEnded]
    /\ UNCHANGED <<published, flushed, conversations, messages, analysis, pipelineOutput,
                   systemMetrics, realTime>>

\* handleConversationEnded: UPDATE conversations SET end_time = ? WHERE id = ?
updateEndTime(i) ==
    LET data == published[i] IN
    /\ handlerPc[i] = "updateEndTime"
    /\ conversations' = [conversations EXCEPT ![data.id] = [@ EXCEPT !.end_time = data.endTime]]
    /\ handlerPc' = [handlerPc EXCEPT ![i] = afterEnded]
    /\ UNCHANGED <<published, flushed, messages, analysis, pipelineOutput, systemMetrics,
                   realTime>>

\* processConversationStream(data.conversationId)
processConversationStream(i) ==
    LET conversationId == Field(published[i], "conversationId") IN
    /\ handlerPc[i] = "processConversationStream"
    /\ IF ~findRow(conversationId).stored
       THEN UNCHANGED pipelineOutput                               \* if (!conversation) return
       ELSE pipelineOutput' = pipelineOutput \cup {conversationId}  \* processConversationsBatch
    /\ handlerPc' = [handlerPc EXCEPT ![i] = "done"]
    /\ UNCHANGED <<published, flushed, conversations, messages, analysis, systemMetrics,
                   realTime>>

(***************************************************************************)
(* PatternDetector  (src/unnamed/part_007)                                 *)
(* Strings are sequences of one-character strings, so that split, includes *)
(* and the character sets of words are computed as the code computes them. *)
(***************************************************************************)
VARIABLES
    clusterInput,    \* the ranked keyword list given to clusterTopicsBySimilarity
    clusterOutput,   \* the clusters it returned
    problemInput,    \* the message contents given to detectProblemSolvingPatterns
    problemPatterns, \* the patterns it returned
    patternDatabase, \* this.patternDatabase: ids of the conversations analysed so far
    reference,       \* the first run of extractKeywordsTFIDF: input, output (observer)
    analysedBefore,  \* patternDatabase.size at the first run (observer)
    latest,          \* the last run of extractKeywordsTFIDF: input, output (observer)
    styleInput,      \* the message contents given to analyzeCommunicationStyle
    styleResult      \* what it returned: styles, total, dominantStyle

detVars == <<clusterInput, clusterOutput, problemInput, problemPatterns,
             patternDatabase, reference, analysedBefore, latest, styleInput, styleResult>>

\* longest keyword list given to clustering
MaxKeywords == 3

\* the words of the keyword lists
Words == {<<"c","o","d","e">>, <<"n","o","d","e">>, <<"c","o","d","e","s">>,
          <<"d","o","s","e">>, <<"s","t","r","e","a","m">>, <<"t","e","a","m">>,
          <<"s","t","a","r">>}

\* sequences of distinct elements of S, of length at most n
RECURSIVE DistinctSeqs(_, _)
DistinctSeqs(S, n) ==
    IF n = 0 THEN {<<>>}
    ELSE LET shorter == DistinctSeqs(S, n - 1)
         IN shorter \cup {Append(qx[1], qx[2]) :
                             qx \in {ry \in shorter \X S : Len(ry[1]) = n - 1 /\ ry[2] \notin Range(ry[1])}}

\* longest message sequence given to the problem-solving detection
MaxMessages == 4

\* message contents
\* "error happened"
msgError == <<"e", "r", "r", "o", "r", " ", "h", "a", "p", "p", "e", "n", "e", "d">>
\* "trying fix"
msgTrying == <<"t", "r", "y", "i", "n", "g", " ", "f", "i", "x">>
\* "trying fix2"
msgTrying2 == <<"t", "r", "y", "i", "n", "g", " ", "f", "i", "x", "2">>
\* "it works now"
msgWorks == <<"i", "t", " ", "w", "o", "r", "k", "s", " ", "n", "o", "w">>
\* "Agora funciona"
msgFunciona == <<"A", "g", "o", "r", "a", " ", "f", "u", "n", "c", "i", "o", "n", "a">>
\* "$ npm test"
msgCommand == <<"$", " ", "n", "p", "m", " ", "t", "e", "s", "t">>

Contents == {msgError, msgTrying, msgTrying2, msgWorks, msgFunciona, msgCommand}

\* sequences over S of length at most n
RECURSIVE SeqsUpTo(_, _)
SeqsUpTo(S, n) ==
    IF n = 0 THEN {<<>>}
    ELSE LET shorter == SeqsUpTo(S, n - 1)
         IN shorter \cup {Append(qx[1], qx[2]) : qx \in {ry \in shorter \X S : Len(ry[1]) = n - 1}}

\* the character U+0060, which opens a code fence
backtick == "U+0060"

\* String.prototype.toLowerCase, for the upper-case letters that occur
toLowerCase(content) ==
    [i \in 1..Len(content) |-> CASE content[i] = "A" -> "a"
                                 [] content[i] = "E" -> "e"
                                 [] OTHER -> content[i]]

\* content.includes(indicator)
includes(content, indicator) ==
    \E i \in 0..(Len(content) - Len(indicator)) :
        SubSeq(content, i + 1, i + Len(indicator)) = indicator

\* content includes one of the strings of the set
includesAny(content, strings) == \E indicator \in strings : includes(content, indicator)

\* problemIndicators of identifyProblemPatterns, in order
problemIndicators == <<<<"e", "r", "r", "o">>,
                       <<"p", "r", "o", "b", "l", "e", "m", "a">>,
                       <<"b", "u", "g">>,
                       <<"n", "ã", "o", " ", "f", "u", "n", "c", "i", "o", "n", "a">>,
                       <<"f", "a", "l", "h", "a">>,
                       <<"e", "x", "c", "e", "p", "t", "i", "o", "n">>,
                       <<"c", "r", "a", "s", "h">>,
                       <<"b", "r", "o", "k", "e", "n">>,
                       <<"i", "s", "s", "u", "e">>,
                       <<"t", "r", "o", "u", "b", "l", "e">>>>

\* an index that was never assigned (undefined)
NoIndex == 0 - 1

\* the test before a problem is pushed, without the test of currentProblem
opensEpisode_WhileOpen(currentProblem, found) == found # {}

\* content.includes(indicator) for some indicator, and !currentProblem
opensEpisode(currentProblem, found) == currentProblem = 0 /\ found # {}

\* the forEach of identifyProblemPatterns from message number i on (indices
\* are 0-based as in the code); currentProblem is a position in problems, 0 for null
RECURSIVE identifyFrom(_, _, _, _)
identifyFrom(msgs, i, problems, currentProblem) ==
    IF i > Len(msgs) THEN problems
    ELSE LET content == toLowerCase(msgs[i])
             found == {k \in 1..Len(problemIndicators) : includes(content, problemIndicators[k])}
             opens == opensEpisode(currentProblem, found)
             pushed == IF opens
                       THEN Append(problems,
                                   [startIndex |-> i - 1,
                                    indicator |-> problemIndicators[CHOOSE k \in found :
                                                                       \A l \in found : k <= l],
                                    status |-> "open", endIndex |-> NoIndex])
                       ELSE problems
             current == IF opens THEN Len(pushed) ELSE currentProblem
             resolves == /\ current # 0
                         /\ includesAny(content, {<<"r", "e", "s", "o", "l", "v", "i", "d", "o">>,
                                                  <<"f", "u", "n", "c", "i", "o", "n", "a">>})
         IN IF resolves
            THEN identifyFrom(msgs, i + 1,
                              [pushed EXCEPT ![current].status = "resolved",
                                             ![current].endIndex = i - 1], 0)
            ELSE identifyFrom(msgs, i + 1, pushed, current)

\* identifyProblemPatterns(msgs)
identifyProblemPatterns(msgs) ==
    LET problems == identifyFrom(msgs, 1, <<>>, 0)
    IN [totalProblems |-> Len(problems),
        openProblems |-> Len(SelectSeq(problems, LAMBDA q : q.status = "open")),
        resolvedProblems |-> Len(SelectSeq(problems, LAMBDA q : q.status = "resolved")),
        problems |-> problems]

\* the content starts an attempt: code or a command
startsAttempt(content) ==
    includesAny(content, {<<backtick, backtick, backtick>>, <<"$", " ">>, <<"n", "p", "m", " ">>, <<"g", "i", "t", " ">>})

\* the forEach of analyzeSolutionAttempts from message number i on;
\* currentAttempt is the start index of the open attempt, NoIndex for null
RECURSIVE attemptsFrom(_, _, _, _)
attemptsFrom(msgs, i, attempts, currentAttempt) ==
    IF i > Len(msgs) THEN attempts
    ELSE LET content == msgs[i]
             current == IF startsAttempt(content) /\ currentAttempt = NoIndex
                        THEN i - 1 ELSE currentAttempt
             ends == /\ current # NoIndex
                     /\ includesAny(content, {<<"s", "u", "c", "e", "s", "s", "o">>, <<"e", "r", "r", "o">>,
                                              <<"f", "a", "l", "h", "a">>})
         IN IF ends
            THEN attemptsFrom(msgs, i + 1,
                              Append(attempts, [startIndex |-> current, endIndex |-> i - 1]),
                              NoIndex)
            ELSE attemptsFrom(msgs, i + 1, attempts, current)

\* analyzeSolutionAttempts(msgs)
analyzeSolutionAttempts(msgs) ==
    LET attempts == attemptsFrom(msgs, 1, <<>>, NoIndex)
    IN [totalAttempts |-> Len(attempts), attempts |-> attempts]

\* analyzeIterationPatterns(msgs)
analyzeIterationPatterns(msgs) ==
    LET lower == [i \in 1..Len(msgs) |-> toLowerCase(msgs[i])]
        currentIteration ==
            Cardinality({i \in 1..Len(msgs) :
                includesAny(lower[i], {<<"t", "e", "n", "t", "a", "r", " ", "n", "o", "v", "a", "m", "e", "n", "t", "e">>,
                                       <<"o", "u", "t", "r", "a", " ", "a", "b", "o", "r", "d", "a", "g", "e", "m">>,
                                       <<"a", "l", "t", "e", "r", "n", "a", "t", "i", "v", "a">>})})
        iterations == {i \in 1..Len(msgs) :
                          includesAny(lower[i], {<<backtick, backtick, backtick>>, <<"$", " ">>})}
    IN [totalIterations |-> currentIteration + 1,
        iterations |-> {i - 1 : i \in iterations}]

\* longest message sequence given to the keyword extraction
MaxDocuments == 2
\* number of conversations whose patterns are stored
MaxAnalysed == 2
\* config.maxTopicsPerConversation
maxTopicsPerConversation == 5

\* no run yet
NoRun == [msgs |-> <<>>, keywords |-> <<>>]

\* the message contents given to the keyword extraction
Documents == {msgError, msgTrying, msgTrying2}

\* doc.split(/\s+/): the maximal runs of non-blank characters, from position i
\* on, word being the run read so far
RECURSIVE splitFrom(_, _, _)
splitFrom(doc, i, word) ==
    IF i > Len(doc) THEN (IF word = <<>> THEN <<>> ELSE <<word>>)
    ELSE IF doc[i] = " "
    THEN (IF word = <<>> THEN <<>> ELSE <<word>>) \o splitFrom(doc, i + 1, <<>>)
    ELSE splitFrom(doc, i + 1, Append(word, doc[i]))

\* doc.split(/\s+/).filter(word => word.length > 2)
wordsOf(doc) == SelectSeq(splitFrom(doc, 1, <<>>), LAMBDA word : Len(word) > 2)

\* the keys of an object in insertion order: the distinct elements of a
\* sequence in order of first occurrence
RECURSIVE keysOf(_)
keysOf(q) ==
    IF q = <<>> THEN <<>>
    ELSE LET init == keysOf(SubSeq(q, 1, Len(q) - 1))
         IN IF q[Len(q)] \in Range(init) THEN init ELSE Append(init, q[Len(q)])

\* the factor by which term frequencies are scaled to stay integers
tfScale == 60

\* calculateTF: wordCount[word] / totalWords of one document, given as its
\* words, times tfScale
calculateTF(words, word) ==
    (Len(SelectSeq(words, LAMBDA w : w = word)) * tfScale) \div Len(words)

\* const totalDocs = documents.length, with the stored conversations added
totalDocs_WithHistory(documents) == Len(documents) + Cardinality(patternDatabase)

\* const totalDocs = documents.length
totalDocs(documents) == Len(documents)

\* Math.log(n / d) in thousandths, by the series 2 (z + z^3/3 + z^5/5) with
\* z = (n - d) / (n + d)
log(n, d) ==
    LET a == n - d
        b == n + d
    IN (2000 * (15 * a * b * b * b * b + 5 * a * a * a * b * b + 3 * a * a * a * a * a))
           \div (15 * b * b * b * b * b)

\* calculateIDF: Math.log(totalDocs / wordCount[word]); documents are given
\* as their words
calculateIDF(documents, word) ==
    log(totalDocs(documents),
        Cardinality({i \in 1..Len(documents) : word \in Range(documents[i])}))

\* sum of f[i] for i in 1..n
RECURSIVE SumTo(_, _)
SumTo(f, n) == IF n = 0 THEN 0 ELSE f[n] + SumTo(f, n - 1)

\* calculateTFIDF and the sum of extractTopKeywords: the score of a word
wordScore(documents, word) ==
    LET idf == calculateIDF(documents, word)
    IN SumTo([i \in 1..Len(documents) |->
                 IF word \in Range(documents[i])
                 THEN calculateTF(documents[i], word) * idf
                 ELSE 0],
             Len(documents))

\* entries.sort((a, b) => b[1] - a[1]): stable insertion sort, descending by score
RECURSIVE sortByScore(_)
sortByScore(entries) ==
    IF entries = <<>> THEN <<>>
    ELSE LET sorted == sortByScore(SubSeq(entries, 1, Len(entries) - 1))
             e == entries[Len(entries)]
             before == SelectSeq(sorted, LAMBDA x : x.score >= e.score)
             after == SelectSeq(sorted, LAMBDA x : x.score < e.score)
         IN before \o <<e>> \o after

\* the flattening of a sequence of sequences
RECURSIVE Flatten(_)
Flatten(qs) == IF qs = <<>> THEN <<>> ELSE Head(qs) \o Flatten(Tail(qs))

\* extractKeywordsTFIDF(messages): the ranked keywords with their scores
keywordsOf(msgs) ==
    LET documents == [i \in 1..Len(msgs) |-> wordsOf(toLowerCase(msgs[i]))]
        words == keysOf(Flatten(documents))
        entries == [k \in 1..Len(words) |->
                       [word |-> words[k], score |-> wordScore(documents, words[k])]]
        ranked == sortByScore(entries)
    IN SubSeq(ranked, 1, Min(Len(ranked), maxTopicsPerConversation))

\* nothing detected yet
NoPatterns == [problemIdentification |-> identifyProblemPatterns(<<>>),
               solutionAttempts |-> analyzeSolutionAttempts(<<>>),
               iterationPatterns |-> [totalIterations |-> 0, iterations |-> {}]]

\* longest message sequence given to the style analysis
MaxStyled == 3

\* message contents with the marks of the styles
\* "por favor"
msgFormal == <<"p", "o", "r", " ", "f", "a", "v", "o", "r">>
\* "ok!"
msgInformal == <<"o", "k", "!">>
\* "class A"
msgTechnical == <<"c", "l", "a", "s", "s", " ", "A">>
\* "porque sim"
msgExplanatory == <<"p", "o", "r", "q", "u", "e", " ", "s", "i", "m">>
\* "oi"
msgPlain == <<"o", "i">>

StyleContents == {msgFormal, msgInformal, msgTechnical, msgExplanatory, msgPlain}

\* the keys of styles, in insertion order
styleOrder == <<"formal", "informal", "technical", "explanatory">>
StyleNames == Range(styleOrder)

\* the marks analyzeCommunicationStyle looks for, per style
styleMarks(style) ==
    CASE style = "formal" -> {<<"p", "o", "r", " ", "f", "a", "v", "o", "r">>,
                              <<"o", "b", "r", "i", "g", "a", "d", "o">>}
      [] style = "informal" -> {<<"!">>, <<"U+1F60A">>}
      [] style = "technical" -> {<<backtick, backtick, backtick>>,
                                 <<"f", "u", "n", "c", "t", "i", "o", "n">>,
                                 <<"c", "l", "a", "s", "s">>}
      [] OTHER -> {<<"p", "o", "r", "q", "u", "e">>, <<"e", "x", "e", "m", "p", "l", "o">>,
                   <<"a", "s", "s", "i", "m">>}

\* the counters after the forEach over the messages
stylesOf(msgs) ==
    [style \in StyleNames |->
        Cardinality({i \in 1..Len(msgs) : includesAny(msgs[i], styleMarks(style))})]

\* Object.entries(styles): the pairs [name, count] in insertion order
entriesOf(styles) ==
    [k \in 1..Len(styleOrder) |->
        [type |-> "entry", name |-> styleOrder[k], count |-> styles[styleOrder[k]]]]

\* the value undefined
Undefined == 0 - 1

\* styles[key]: a string key names a counter; an entry used as key is turned
\* into the string "name,count", which names no counter
property(styles, key) ==
    IF key.type = "string" /\ key.name \in StyleNames THEN styles[key.name] ELSE Undefined

\* x > y, false when an operand is undefined
greaterThan(x, y) == x # Undefined /\ y # Undefined /\ x > y

\* entries.reduce((a, b) => styles[a] > styles[b] ? a : b), without an initial
\* value: the accumulator starts as the first entry
RECURSIVE reduceEntries(_, _, _, _)
reduceEntries(styles, entries, k, a) ==
    IF k > Len(entries) THEN a
    ELSE LET b == entries[k]
         IN reduceEntries(styles, entries, k + 1,
                          IF greaterThan(property(styles, a), property(styles, b)) THEN a ELSE b)

dominantFrom(styles, entries) == reduceEntries(styles, entries, 2, entries[1])

\* no style analysis yet
NoStyle == [styles |-> [style \in StyleNames |-> 0], total |-> 0,
            dominantStyle |-> [type |-> "string", name |-> "formal"]]

DetectorInit ==
    /\ clusterInput = <<>>
    /\ clusterOutput = <<>>
    /\ problemInput = <<>>
    /\ problemPatterns = NoPatterns
    /\ patternDatabase = {}
    /\ reference = NoRun
    /\ analysedBefore = 0
    /\ latest = NoRun
    /\ styleInput = <<>>
    /\ styleResult = NoStyle

\* calculateWordSimilarity(word1, word2) > 0.6, on the character sets:
\* intersection.size / union.size > 0.6
similar(word1, word2) ==
    LET set1 == Range(word1)
        set2 == Range(word2)
    IN 10 * Cardinality(set1 \cap set2) > 6 * Cardinality(set1 \cup set2)

\* processed after a cluster was built, the absorbed terms left out
markProcessed_SeedOnly(processed, word, relatedTopics) == processed \cup {word}

\* processed.add(otherWord) for every absorbed term, then processed.add(word)
markProcessed(processed, word, relatedTopics) ==
    processed \cup {relatedTopics[k].word : k \in 1..Len(relatedTopics)} \cup {word}

\* the forEach of clusterTopicsBySimilarity from keyword number i on; keywords
\* are entries [word, score]
RECURSIVE clusterFrom(_, _, _, _)
clusterFrom(keywords, i, clusters, processed) ==
    IF i > Len(keywords) THEN clusters
    ELSE IF keywords[i].word \in processed
    THEN clusterFrom(keywords, i + 1, clusters, processed)
    ELSE LET word == keywords[i].word
             relatedTopics == SelectSeq(keywords, LAMBDA other :
                                  /\ other.word # word
                                  /\ other.word \notin processed
                                  /\ similar(word, other.word))
             cluster == [mainTopic |-> word, relatedTopics |-> relatedTopics,
                         confidence |-> keywords[i].score,
                         size |-> 1 + Len(relatedTopics)]
         IN clusterFrom(keywords, i + 1, Append(clusters, cluster),
                        markProcessed(processed, word, relatedTopics))

\* a ranked keyword list: the words with scores that descend with the rank
Ranked(words) == [i \in 1..Len(words) |-> [word |-> words[i], score |-> Len(words) + 1 - i]]

\* detectProblemSolvingPatterns(conversation, analysis), on the contents of
\* conversation.messages
detectProblemSolvingPatterns(msgs) ==
    /\ Len(msgs) > 0
    /\ problemInput' = msgs
    /\ problemPatterns' = [problemIdentification |-> identifyProblemPatterns(msgs),
                           solutionAttempts |-> analyzeSolutionAttempts(msgs),
                           iterationPatterns |-> analyzeIterationPatterns(msgs)]
    /\ UNCHANGED <<clusterInput, clusterOutput, patternDatabase, reference,
                   analysedBefore, latest, styleInput, styleResult>>

\* extractKeywordsTFIDF(messages)
extractKeywordsTFIDF(msgs) ==
    LET run == [msgs |-> msgs, keywords |-> keywordsOf(msgs)]
    IN /\ Len(msgs) > 0
       /\ latest' = run
       /\ reference' = IF reference = NoRun THEN run ELSE reference
       /\ analysedBefore' = IF reference = NoRun THEN Cardinality(patternDatabase)
                             ELSE analysedBefore
       /\ UNCHANGED <<clusterInput, clusterOutput, problemInput, problemPatterns,
                      patternDatabase, styleInput, styleResult>>

\* detectAdvancedPatterns(conversation, analysis): the patterns of the
\* conversation are stored under its id
detectAdvancedPatterns(id) ==
    /\ patternDatabase' = patternDatabase \cup {id}
    /\ UNCHANGED <<clusterInput, clusterOutput, problemInput, problemPatterns,
                   reference, analysedBefore, latest, styleInput, styleResult>>

\* clusterTopicsBySimilarity(keywords)
clusterTopicsBySimilarity(keywords) ==
    /\ clusterInput' = keywords
    /\ clusterOutput' = clusterFrom(keywords, 1, <<>>, {})
    /\ UNCHANGED <<problemInput, problemPatterns, patternDatabase, reference,
                   analysedBefore, latest, styleInput, styleResult>>

\* analyzeCommunicationStyle(messages), on the contents of the messages
analyzeCommunicationStyle(msgs) ==
    LET styles == stylesOf(msgs) IN
    /\ Len(msgs) > 0
    /\ styleInput' = msgs
    /\ styleResult' = [styles |-> styles,
                       total |-> SumOver(styles, StyleNames),
                       dominantStyle |-> dominantFrom(styles, entriesOf(styles))]
    /\ UNCHANGED <<clusterInput, clusterOutput, problemInput, problemPatterns,
                   patternDatabase, reference, analysedBefore, latest>>

vars == <<connVars, poolVars, busVars, wpVars, coordVars, detVars>>

Init == ConnInit /\ PoolInit /\ BusInit /\ WorkerInit /\ CoordInit /\ DetectorInit

NextConn ==
    \/ \E c \in Callers : getConnection(c) /\ UNCHANGED <<lastQuery, poolVars, busVars, wpVars, coordVars, detVars>>
    \/ \E c \in Callers : connectionCreated(c) /\ UNCHANGED <<lastQuery, poolVars, busVars, wpVars, coordVars, detVars>>
    \/ \E c \in Callers : connectionFailed(c) /\ UNCHANGED <<lastQuery, poolVars, busVars, wpVars, coordVars, detVars>>
    \/ \E c \in Callers : releaseConnection(c) /\ UNCHANGED <<lastQuery, poolVars, busVars, wpVars, coordVars, detVars>>

SpecConn == Init /\ [][NextConn]_vars

\* the database manager with its statement cache and its shutdown
NextDatabase ==
    \/ NextConn
    \/ \E c \in Callers, ok \in BOOLEAN : executeQuery_settled(c, ok) /\ UNCHANGED <<poolVars, busVars, wpVars, coordVars, detVars>>
    \/ \E c \in Callers : executePreparedStatement(c) /\ UNCHANGED <<poolVars, busVars, wpVars, coordVars, detVars>>
    \/ \E c \in Callers : preparedStatementDone(c) /\ UNCHANGED <<poolVars, busVars, wpVars, coordVars, detVars>>
    \/ close_begin /\ UNCHANGED <<poolVars, busVars, wpVars, coordVars, detVars>>
    \/ close_reset /\ UNCHANGED <<poolVars, busVars, wpVars, coordVars, detVars>>

SpecDatabase == Init /\ [][NextDatabase]_vars

\* holders keep releasing: executeQuery releases in its finally block
SpecConnLive ==
    SpecConn /\ WF_vars((\E c \in Callers : releaseConnection(c))
                           /\ UNCHANGED <<lastQuery, poolVars, busVars, wpVars, coordVars, detVars>>)

NextPool ==
    \/ getConversation /\ UNCHANGED <<swept, lastRelease, connVars, busVars, wpVars, coordVars, detVars>>
    \/ getMessage /\ UNCHANGED <<swept, lastRelease, connVars, busVars, wpVars, coordVars, detVars>>
    \/ \E o \in Objs : releaseConversation(o) /\ UNCHANGED <<swept, lastRelease, connVars, busVars, wpVars, coordVars, detVars>>
    \/ \E o \in Objs : releaseMessage(o) /\ UNCHANGED <<swept, lastRelease, connVars, busVars, wpVars, coordVars, detVars>>
    \/ \E o \in Objs, p \in Payloads : assignConversation(o, p) /\ UNCHANGED <<swept, lastRelease, connVars, busVars, wpVars, coordVars, detVars>>
    \/ \E d \in Objs, o \in Objs : copyConversation(d, o) /\ UNCHANGED <<swept, lastRelease, connVars, busVars, wpVars, coordVars, detVars>>
    \/ \E o \in Objs, p \in Payloads : assignMessage(o, p) /\ UNCHANGED <<swept, lastRelease, connVars, busVars, wpVars, coordVars, detVars>>
    \/ \E o \in Objs, p \in Payloads : pushMessage(o, p) /\ UNCHANGED <<swept, lastRelease, connVars, busVars, wpVars, coordVars, detVars>>
    \/ cleanup /\ UNCHANGED <<swept, lastRelease, connVars, busVars, wpVars, coordVars, detVars>>
    \/ clear /\ UNCHANGED <<swept, lastRelease, connVars, busVars, wpVars, coordVars, detVars>>
    \/ destroy /\ UNCHANGED <<swept, lastRelease, connVars, busVars, wpVars, coordVars, detVars>>
    \/ Tick /\ UNCHANGED <<swept, lastRelease, connVars, busVars, wpVars, coordVars, detVars>>

SpecPool == Init /\ [][NextPool]_vars

\* the calls of the pool with their outcome recorded: what a cleanup removed,
\* what a release returned
NextPoolAudit ==
    \/ \E t \in PoolTypes : get(t) /\ swept' = {} /\ lastRelease' = NoRelease
          /\ UNCHANGED <<connVars, busVars, wpVars, coordVars, detVars>>
    \/ \E t \in PoolTypes, o \in Objs :
          /\ release(t, o)
          /\ lastRelease' = [type |-> t, obj |-> o,
                             returned |-> objToRelease(getPool(t), o) # NoObj]
          /\ swept' = {}
          /\ UNCHANGED <<connVars, busVars, wpVars, coordVars, detVars>>
    \/ cleanup /\ swept' = AvailableObjs \ UNION {Range(pools'[t].available) : t \in PoolTypes}
          /\ lastRelease' = NoRelease
          /\ UNCHANGED <<connVars, busVars, wpVars, coordVars, detVars>>
    \/ clear /\ swept' = {} /\ lastRelease' = NoRelease
          /\ UNCHANGED <<connVars, busVars, wpVars, coordVars, detVars>>
    \/ destroy /\ swept' = {} /\ lastRelease' = NoRelease
          /\ UNCHANGED <<connVars, busVars, wpVars, coordVars, detVars>>
    \/ Tick /\ swept' = {} /\ lastRelease' = NoRelease
          /\ UNCHANGED <<connVars, busVars, wpVars, coordVars, detVars>>

SpecPoolAudit == Init /\ [][NextPoolAudit]_vars

\* the name published from outside the handlers; FollowUp is published by handlers
Published == EventNames \ {FollowUp}

NextBus ==
    \/ \E n \in Published, p \in Priorities : emitBuffered(n, p) /\ UNCHANGED <<connVars, poolVars, wpVars, coordVars, detVars>>
    \/ flushBuffer /\ UNCHANGED <<connVars, poolVars, wpVars, coordVars, detVars>>
    \/ \E n \in EventNames, k \in HandlerKinds : subscribe(n, k) /\ UNCHANGED <<connVars, poolVars, wpVars, coordVars, detVars>>

SpecBus == Init /\ [][NextBus]_vars

\* the bus with unwrapped listeners, retries and names of the system namespace
FullEvents == {"evA"} \cup SystemEvents
FullPriorities == {"normal"}
\* the unwrapped listeners: one that always throws, one that throws on the first attempt
RawListeners == {<<"evA", "throws">>, <<"system.health", "throwsFirst">>}
\* number of events published to the bus with unwrapped listeners
MaxRetried == 2

\* MicrobiomaDigitalOptimized.initialize: the handlers are registered
\* (setupEventBusHandlers) before anything is published
Registering == nextEventId = 1

NextBusFull ==
    \/ \E n \in FullEvents, p \in FullPriorities : nextEventId <= MaxRetried /\ emitBuffered(n, p) /\ UNCHANGED <<connVars, poolVars, wpVars, coordVars, detVars>>
    \/ flushBuffer /\ UNCHANGED <<connVars, poolVars, wpVars, coordVars, detVars>>
    \/ \E n \in SystemEvents \cup Patterns : Registering /\ subscribe(n, "returns") /\ UNCHANGED <<connVars, poolVars, wpVars, coordVars, detVars>>
    \/ \E l \in RawListeners : Registering /\ on(l[1], l[2]) /\ UNCHANGED <<connVars, poolVars, wpVars, coordVars, detVars>>
    \/ \E r \in retries : retryTimer(r) /\ UNCHANGED <<connVars, poolVars, wpVars, coordVars, detVars>>

SpecBusFull == Init /\ [][NextBusFull]_vars

\* number of calls of subscribe of which the returned function is kept
MaxHandles == 3

\* the bus with subscribers that come and go
NextSubscribers ==
    \/ \E n \in EventNames, k \in {"returns", "throws"} :
          Cardinality(handles) < MaxHandles /\ subscribe(n, k)
          /\ UNCHANGED <<connVars, poolVars, wpVars, coordVars, detVars>>
    \/ \E h \in handles : unsubscribe(h) /\ UNCHANGED <<connVars, poolVars, wpVars, coordVars, detVars>>
    \/ \E n \in Published : emitBuffered(n, "normal") /\ UNCHANGED <<connVars, poolVars, wpVars, coordVars, detVars>>
    \/ flushBuffer /\ UNCHANGED <<connVars, poolVars, wpVars, coordVars, detVars>>
    \/ destroy_bus /\ UNCHANGED <<connVars, poolVars, wpVars, coordVars, detVars>>

SpecSubscribers == Init /\ [][NextSubscribers]_vars

NextWorker ==
    \/ workerOnline /\ UNCHANGED <<connVars, poolVars, busVars, coordVars, detVars>>
    \/ workerStartFails /\ UNCHANGED <<connVars, poolVars, busVars, coordVars, detVars>>
    \/ executeWorkerTask /\ UNCHANGED <<connVars, poolVars, busVars, coordVars, detVars>>
    \/ \E t \in TaskIds, ok \in BOOLEAN : workerReplies(t, ok) /\ UNCHANGED <<connVars, poolVars, busVars, coordVars, detVars>>
    \/ \E t \in TaskIds : workerTimeout(t) /\ UNCHANGED <<connVars, poolVars, busVars, coordVars, detVars>>
    \/ getMetrics /\ UNCHANGED <<connVars, poolVars, busVars, coordVars, detVars>>
    \/ destroy_worker /\ UNCHANGED <<connVars, poolVars, busVars, coordVars, detVars>>
    \/ terminateWorkers /\ UNCHANGED <<connVars, poolVars, busVars, coordVars, detVars>>

SpecWorker == Init /\ [][NextWorker]_vars

\* the steps the runtime takes on its own: timers, worker replies, the poll of destroy
WorkerProgress ==
    \/ \E t \in TaskIds : workerTimeout(t)
    \/ \E t \in TaskIds, ok \in BOOLEAN : workerReplies(t, ok)
    \/ terminateWorkers

SpecWorkerLive ==
    SpecWorker /\ WF_vars(WorkerProgress /\ UNCHANGED <<connVars, poolVars, busVars, coordVars, detVars>>)

\* the steps the runtime takes on its own: timer flushes and database completions
CoordProgress ==
    \/ coordFlushBuffer
    \/ \E i \in EventIdx : insertConversation(i)
    \/ \E i \in EventIdx : insertMessage(i)
    \/ \E i \in EventIdx : findConversationById(i)
    \/ \E i \in EventIdx : updateEndTime(i)
    \/ \E i \in EventIdx : processConversationStream(i)

NextCoord ==
    \/ \E rt \in {"on", "off"} : initialize(rt) /\ UNCHANGED <<connVars, poolVars, busVars, wpVars, detVars>>
    \/ \E c \in Convs : publishStarted(c) /\ UNCHANGED <<connVars, poolVars, busVars, wpVars, detVars>>
    \/ \E c \in Convs, m \in MsgIds : publishMessage(c, m) /\ UNCHANGED <<connVars, poolVars, busVars, wpVars, detVars>>
    \/ \E c \in Convs, t \in Times : publishEnded(c, t) /\ UNCHANGED <<connVars, poolVars, busVars, wpVars, detVars>>
    \/ coordFlushBuffer /\ UNCHANGED <<connVars, poolVars, busVars, wpVars, detVars>>
    \/ \E i \in EventIdx : insertConversation(i) /\ UNCHANGED <<connVars, poolVars, busVars, wpVars, detVars>>
    \/ \E i \in EventIdx : insertMessage(i) /\ UNCHANGED <<connVars, poolVars, busVars, wpVars, detVars>>
    \/ \E i \in EventIdx : findConversationById(i) /\ UNCHANGED <<connVars, poolVars, busVars, wpVars, detVars>>
    \/ \E i \in EventIdx : updateEndTime(i) /\ UNCHANGED <<connVars, poolVars, busVars, wpVars, detVars>>
    \/ \E i \in EventIdx : processConversationStream(i) /\ UNCHANGED <<connVars, poolVars, busVars, wpVars, detVars>>

SpecCoord == Init /\ [][NextCoord]_vars

\* the event loop keeps running: every enabled flush or completion is eventually taken
SpecCoordLive == SpecCoord /\ WF_vars(CoordProgress /\ UNCHANGED <<connVars, poolVars, busVars, wpVars, detVars>>)

\* no routine of the detector has been applied yet
Unused == clusterInput = <<>> /\ problemInput = <<>> /\ reference = NoRun /\ styleInput = <<>>

\* the pattern detector: clustering and problem-solving detection are applied
\* once to an input, keyword extraction repeatedly, while conversations are stored
NextDetector ==
    \/ Unused /\ \E keywords \in DistinctSeqs(Words, MaxKeywords) :
          clusterTopicsBySimilarity(Ranked(keywords)) /\ UNCHANGED <<connVars, poolVars, busVars, wpVars, coordVars>>
    \/ Unused /\ \E msgs \in SeqsUpTo(Contents, MaxMessages) :
          detectProblemSolvingPatterns(msgs) /\ UNCHANGED <<connVars, poolVars, busVars, wpVars, coordVars>>
    \/ Unused /\ \E msgs \in SeqsUpTo(StyleContents, MaxStyled) :
          analyzeCommunicationStyle(msgs) /\ UNCHANGED <<connVars, poolVars, busVars, wpVars, coordVars>>
    \/ (clusterInput = <<>> /\ problemInput = <<>> /\ styleInput = <<>>) /\ \E msgs \in SeqsUpTo(Documents, MaxDocuments) :
          extractKeywordsTFIDF(msgs) /\ UNCHANGED <<connVars, poolVars, busVars, wpVars, coordVars>>
    \/ \E id \in 1..MaxAnalysed :
          detectAdvancedPatterns(id) /\ UNCHANGED <<connVars, poolVars, busVars, wpVars, coordVars>>

SpecDetector == Init /\ [][NextDetector]_vars

\* C1: the number of physical connections held by the pool never exceeds
\* maxConnections, whatever the interleaving of acquires and releases.
C1_PoolBounded == Len(connections) <= maxConnections

\* get returns the recycled top of the available list of type tag t in this step
GetReuses(t) ==
    /\ Len(pools[t].available) > 0
    /\ metrics'.hits = metrics.hits + 1
    /\ pools'[t] # pools[t]

IdentifierFields == {"id", "conversationId"}
CollectionFields == {"metadata", "context"}

\* payload d is in its reset state: identifiers null, collections empty
IsReset(d) ==
    /\ \A f \in (DOMAIN d) \cap IdentifierFields : d[f] = NULL
    /\ \A f \in (DOMAIN d) \cap CollectionFields : d[f] = {}
    /\ MessagesOf(d) = <<>>

\* C9: an instance that get returns after it was released is in its reset
\* state: every identifier field is null and every collection is empty.
C9_AcquireReturnsReset ==
    [][\A t \in PoolTypes :
         GetReuses(t) => IsReset(objData[pools[t].available[Len(pools[t].available)]])]_vars

\* C3: within a flush batch, an event of a strictly higher priority tier is
\* dispatched before every event of a lower tier.
C3_BatchRespectsTiers ==
    \A i, j \in 1..Len(dispatched) :
        (/\ dispatched[i].batch = dispatched[j].batch
         /\ Tier(dispatched[i].priority) > Tier(dispatched[j].priority)) => i < j

\* ids of the events waiting in the buffer, and of the events dispatched so far
BufferedIds == {eventBuffer[i].id : i \in 1..Len(eventBuffer)}
DispatchedIds == {dispatched[i].id : i \in 1..Len(dispatched)}

\* every event of the backlog of the last call was dispatched to all the
\* handlers subscribed to its name
BacklogDispatched ==
    \A id \in lastCall.backlog : \E i \in 1..Len(dispatched) :
        /\ dispatched[i].id = id
        /\ dispatched[i].invoked = Len(listeners[dispatched[i].event])

InFlight(w) == {t \in TaskIds : tasks[t].worker = w /\ tasks[t].handle = "pending"}

\* C5: once a task's handle has failed with a timeout, the load counter of its
\* worker no longer counts it: jobCount is the number of the worker's tasks
\* still in flight, whether or not the worker replies later.
C5_TimeoutRestoresLoad ==
    \A t \in TaskIds :
        tasks[t].handle = "timeout" =>
            workerPool[tasks[t].worker].jobCount = Cardinality(InFlight(tasks[t].worker))

\* C6: one backpressure event is published per rise of the utilisation above
\* the threshold: never more events than rises, however often metrics are read.
C6_OneEventPerSaturation == wpMetrics.backpressureEvents <= saturations

\* C10: every submitted task goes to a worker whose in-flight count is minimal
\* among the workers of the pool at that moment.
C10_LeastLoadedChosen ==
    [][\A t \in TaskIds :
         (t \notin activeJobs /\ t \in activeJobs') =>
             \A w \in 1..Len(workerPool) :
                 workerPool[tasks'[t].worker].jobCount <= workerPool[w].jobCount]_vars

\* C7: the end time of a stored conversation is null until the first end is
\* applied, and once set no later operation changes it.
C7_EndTimeSetOnce ==
    [][\A c \in Convs :
         /\ (~conversations[c].stored /\ conversations'[c].stored) =>
                conversations'[c].end_time = NullTime
         /\ (conversations[c].stored /\ conversations[c].end_time # NullTime) =>
                conversations'[c] = conversations[c]]_vars

\* the events of the end-to-end scenario, in publication order
Scenario ==
    << [event |-> "conversation.started", id |-> "c1"],
       [event |-> "message.added", id |-> "m1", conversationId |-> "c1", timestamp |-> 1],
       [event |-> "message.added", id |-> "m2", conversationId |-> "c1", timestamp |-> 2],
       [event |-> "conversation.ended", id |-> "c1", endTime |-> 2] >>

\* storage at the end of the scenario
EndToEndStored ==
    /\ conversations["c1"].stored
    /\ conversations["c1"].end_time # NullTime
    /\ {r.id : r \in {r \in messages : r.conversation_id = "c1"}} = {"m1", "m2"}
    /\ Cardinality({r \in analysis : r.conversation_id = "c1" /\ r.keywords # <<>>}) = 1
    /\ Cardinality({r \in analysis : r.conversation_id = "c1"}) = 1

\* C8: once exactly the scenario has been published, storage eventually holds
\* conversation c1 with end_time set, its two messages, and one analysis row
\* for c1 with keywords.
C8_EndToEnd == (published = Scenario) ~> EndToEndStored

\* every connection of the pool is in use and the pool is full
Saturated_Pool == availableConnection = 0 /\ Len(connections) >= maxConnections

\* C11: an acquire on a saturated pool queues the caller at the tail; a release
\* with waiters hands the released connection to the head of the queue, so
\* waiters leave the queue in arrival order; and every waiter is eventually
\* served while holders keep releasing.
C11_QueuedServedInOrder ==
    /\ [][\A c \in Callers :
            /\ (callerState[c] = "idle" /\ callerState'[c] # "idle" /\ Saturated_Pool) =>
                   (callerState'[c] = "waiting" /\ waitingQueue' = Append(waitingQueue, c))
            /\ (callerState[c] = "holding" /\ callerState'[c] = "idle" /\ waitingQueue # <<>>) =>
                   /\ waitingQueue' = Tail(waitingQueue)
                   /\ callerState'[Head(waitingQueue)] = "holding"
                   /\ callerConn'[Head(waitingQueue)] = callerConn[c]
            /\ (callerState[c] = "waiting" /\ callerState'[c] # "waiting") =>
                   (c = Head(waitingQueue) /\ callerState'[c] = "holding")]_vars
    /\ \A c \in Callers : (callerState[c] = "waiting") ~> (callerState[c] = "holding")

\* two callers queued, in arrival order, behind a saturated pool
C11_Witness ==
    /\ Len(waitingQueue) >= 2
    /\ Saturated_Pool
    /\ \A i \in 1..Len(waitingQueue) : callerState[waitingQueue[i]] = "waiting"

\* C12: a shutdown of the worker pool always terminates: once destroy has
\* been called the workers are eventually terminated, whatever happened to
\* the tasks submitted before.
C12_ShutdownTerminates == (destroyState = "waiting") ~> (destroyState = "terminated")

\* a caller inside getConnection or holding its result
Acquiring == {"holding", "creating", "waiting"}

\* C13: once close() has completed, no acquire proceeds (no caller is handed a
\* connection, starts to open one or is queued) and no physical connection is
\* opened.
C13_ClosedPoolRejects ==
    [][closeState = "closed" =>
          /\ opened' = opened
          /\ \A c \in Callers : callerState[c] = "idle" => callerState'[c] \notin Acquiring]_vars

\* C14: a caller waiting in the acquire queue is never left pending without
\* its resolver in the queue: when close() empties the queue, the waiting
\* acquires have been failed.
C14_QueuedCallersFailOnClose ==
    \A c \in Callers : callerState[c] = "waiting" => c \in Range(waitingQueue)

\* C16: no two callers hold the same connection, and a cached prepared
\* statement executes only on a connection its caller currently holds.
C16_ExclusiveUse ==
    /\ \A c, d \in Callers :
          (c # d /\ callerState[c] = "holding" /\ callerState[d] = "holding") =>
              callerConn[c] # callerConn[d]
    /\ \A c \in Callers : runsOn[c] # NoConn => callerConn[c] = runsOn[c]

\* the conversation an event belongs to
ConversationOf(e) == IF e.event = "message.added" THEN e.conversationId ELSE e.id

\* handler positions whose next step is a write to storage
WriteCalls == {"insertConversation", "insertMessage", "updateEndTime"}

\* handler positions after the writes of the handler
Written == {"done", "processConversationStream"}

\* the published events are one capture of a conversation: its start first, its
\* messages with non-decreasing timestamps, its end (if any) last
CaptureOrder ==
    /\ Len(published) > 0
    /\ \A i \in 1..Len(published) :
          /\ (published[i].event = "conversation.started") <=> (i = 1)
          /\ published[i].event = "conversation.ended" => i = Len(published)
    /\ \A i, j \in 1..Len(published) :
          (i < j /\ published[i].event = "message.added" /\ published[j].event = "message.added")
              => published[i].timestamp < published[j].timestamp

\* C15: the writes of one conversation take effect in publish order: when the
\* write of an event is applied, the handlers of all events of the same
\* conversation published before it have applied theirs.
C15_WritesInPublishOrder ==
    [][\A i \in 1..Len(published) :
          (CaptureOrder /\ handlerPc[i] \in WriteCalls /\ handlerPc'[i] # handlerPc[i]) =>
              \A j \in 1..(i - 1) :
                  ConversationOf(published[j]) = ConversationOf(published[i]) =>
                      handlerPc[j] \in Written]_vars

\* the row with the id of event e is already stored
AlreadyStored(e) ==
    IF e.event = "message.added" THEN \E r \in messages : r.id = e.id
    ELSE conversations[e.id].stored

\* C20: writing a conversation or a message whose id is already stored is an
\* upsert: the write completes without an error and storage keeps one row
\* for the id.
C20_IdempotentUpsert ==
    [][\A i \in 1..Len(published) :
          (/\ handlerPc[i] \in {"insertConversation", "insertMessage"}
           /\ handlerPc'[i] = "done"
           /\ AlreadyStored(published[i])
           /\ conversations[ConversationOf(published[i])].stored) =>
              /\ systemMetrics'.errorCount = systemMetrics.errorCount
              /\ AlreadyStored(published[i])']_vars

\* positions in the log of the attempts made for event id
Attempts(id) == {i \in 1..Len(dispatched) : dispatched[i].id = id}

\* events whose last permitted attempt threw
Exhausted == {dispatched[i].id : i \in {j \in 1..Len(dispatched) :
                  dispatched[j].retry = maxRetries /\ dispatched[j].threw}}

\* C17: an event is attempted at most maxRetries + 1 times; attempt number
\* k + 1 follows a failed attempt k after a delay of retryDelay * 2^k; no
\* attempt follows a successful one; an event whose attempts all failed is
\* dropped and counted once in eventsFailed.
C17_RetryWithBackoff ==
    /\ \A i \in 1..Len(dispatched) :
          /\ dispatched[i].retry <= maxRetries
          /\ dispatched[i].waited =
                 IF dispatched[i].retry = 0 THEN 0
                 ELSE retryDelay * 2^(dispatched[i].retry - 1)
    /\ \A i, j \in 1..Len(dispatched) :
          (i < j /\ dispatched[i].id = dispatched[j].id) =>
              (dispatched[i].threw /\ dispatched[j].retry > dispatched[i].retry)
    /\ \A r \in retries :
          /\ r.id \notin Exhausted
          /\ \A i \in Attempts(r.id) : dispatched[i].threw /\ dispatched[i].retry < r.retry
    /\ busMetrics.eventsFailed = Cardinality(Exhausted)

\* one event was dropped after maxRetries + 1 failed attempts, another
\* succeeded on a retry
C17_Witness ==
    /\ Exhausted # {}
    /\ busMetrics.eventsFailed > 0
    /\ \E i \in 1..Len(dispatched) : dispatched[i].retry > 0 /\ ~dispatched[i].threw

\* C18: a throwing handler registered through subscribe blocks nothing: every
\* handler registered for the event is invoked, emit does not throw (no retry),
\* and every event taken from the buffer is dispatched.
C18_HandlerErrorsIsolated ==
    /\ \A i \in 1..Len(dispatched) :
          (\A h \in Range(listeners[dispatched[i].event]) : h.wrapped) =>
              /\ dispatched[i].invoked = dispatched[i].registered
              /\ ~dispatched[i].threw
              /\ dispatched[i].retry = 0
    /\ \A id \in 1..(nextEventId - 1) :
          id \in {eventBuffer[i].id : i \in 1..Len(eventBuffer)}
                 \cup {dispatched[i].id : i \in 1..Len(dispatched)}

\* an event was dispatched to two handlers, the first of which throws, and a
\* later event of the same batch was dispatched too
C18_Witness ==
    \E i \in 1..Len(dispatched) :
        /\ dispatched[i].registered = 2
        /\ dispatched[i].invoked = 2
        /\ listeners[dispatched[i].event][1].kind = "throws"
        /\ \E j \in 1..Len(dispatched) : j > i /\ dispatched[j].batch = dispatched[i].batch

\* C19: a handler subscribed under the wildcard name of a namespace is invoked
\* for every dispatched event of that namespace.
C19_WildcardInvoked ==
    \A i \in 1..Len(dispatched) :
        ~dispatched[i].threw =>
            dispatched[i].invoked = dispatched[i].registered + dispatched[i].matching

\* C21: a handle that failed with a timeout keeps that outcome when the reply
\* of its worker arrives later; a settled handle never changes again; and the
\* reply for one task never settles the handle of another task.
C21_LateReplyDiscarded ==
    /\ [](\A u \in TaskIds : tasks[u].result \in {0, u})
    /\ [][\A t \in TaskIds :
            tasks[t].handle \notin {"none", "pending"} =>
                /\ tasks'[t].handle = tasks[t].handle
                /\ tasks'[t].result = tasks[t].result]_vars

\* the late reply for a timed-out task arrived while another task of the same
\* worker was still listening
C21_Witness ==
    \E t, u \in TaskIds :
        /\ t # u
        /\ tasks[t].handle = "timeout" /\ tasks[t].replied /\ tasks[t].result = 0
        /\ tasks[u].worker = tasks[t].worker
        /\ tasks[u].handle = "pending" /\ tasks[u].listening

\* C27: the in-flight job table holds exactly the submitted tasks whose handle
\* has not settled: the entry of a task is removed when the task replies,
\* fails or times out.
C27_ActiveJobsAreInFlight ==
    activeJobs = {t \in TaskIds : tasks[t].handle = "pending"}

\* C25: the buffer never holds more than bufferSize events, not even while a
\* handler publishes during a flush, and a publish that brings the buffer to
\* bufferSize flushes within the same call.
C25_BufferCapped ==
    /\ [](Len(eventBuffer) <= bufferSize /\ lastCall.peak <= bufferSize)
    /\ [][lastCall'.peak >= bufferSize => flushCount' > flushCount]_vars

\* a call filled the buffer to bufferSize, and a handler published during a flush
C25_Witness ==
    /\ lastCall.peak = bufferSize
    /\ \E i \in 1..Len(dispatched) :
          /\ dispatched[i].invoked > 0
          /\ \E k \in 1..Len(listeners[dispatched[i].event]) :
                listeners[dispatched[i].event][k].kind = "publishes"

\* C26: of two events of the same priority tier, the one published first is
\* dispatched first, within a batch and across batches (ids are given in
\* publish order; the first attempt of each event is compared).
C26_FifoWithinTier ==
    \A i, j \in 1..Len(dispatched) :
        (/\ dispatched[i].retry = 0 /\ dispatched[j].retry = 0
         /\ Tier(dispatched[i].priority) = Tier(dispatched[j].priority)
         /\ dispatched[i].id < dispatched[j].id) => i < j

\* C28: a connection is marked in use only while a query in flight holds it:
\* every query releases its connection when it settles, resolved or rejected,
\* so with no query in flight no connection of the pool is in use.
C28_NoConnectionLeak ==
    /\ \A i \in 1..Len(connections) :
          connections[i].inUse =>
              \E c \in Callers : callerState[c] = "holding" /\ callerConn[c] = connections[i].db
    /\ (\A c \in Callers : callerState[c] = "idle") =>
           \A i \in 1..Len(connections) : ~connections[i].inUse

\* a query has failed, no query is in flight any more, and the pool is not empty
C28_Witness ==
    /\ lastQuery = "rejected"
    /\ \A c \in Callers : callerState[c] = "idle"
    /\ Len(connections) > initialConnections

\* instances that are checked out or available under some type tag
Pooled == ActiveObjs \cup UNION {Range(pools[t].available) : t \in PoolTypes}

\* C29: two distinct pooled instances never refer to the same messages list, so
\* a change made through one is not visible through the other.
C29_NoSharedCollection ==
    \A o1, o2 \in Pooled :
        (/\ o1 # o2
         /\ "messages" \in DOMAIN objData[o1]
         /\ "messages" \in DOMAIN objData[o2]) =>
            objData[o1]["messages"] # objData[o2]["messages"]

\* C30: no available list holds more than maxSize instances; a release that
\* finds the list at maxSize discards the instance, which is then neither
\* active nor available, and totalObjects is decremented by one.
C30_AvailableCapped ==
    /\ [](\A t \in PoolTypes : Len(pools[t].available) <= maxSize)
    /\ [][\A t \in PoolTypes : \A o \in pools[t].active :
            (/\ Len(pools[t].available) = maxSize
             /\ pools'[t].active = pools[t].active \ {o}
             /\ pools'[t].available = pools[t].available) =>
                /\ o \notin Range(pools'[t].available)
                /\ metrics'.totalObjects = metrics.totalObjects - 1]_vars

\* an instance was discarded by a release that found the available list full
C30_Witness ==
    \E t \in PoolTypes, o \in Created :
        /\ objType[o] = t
        /\ o \notin Pooled
        /\ Len(pools[t].available) = maxSize
        /\ metrics.cleanups = 0
        /\ metrics.totalObjects = metrics.creates - 1

\* the words of the cluster (main topic and related topics) that holds word w
ClusterOf(w) ==
    {k \in 1..Len(clusterOutput) :
        \/ w = clusterOutput[k].mainTopic
        \/ \E r \in Range(clusterOutput[k].relatedTopics) : r.word = w}

\* character-set Jaccard similarity of at least 0.6
AtLeastThreshold(word1, word2) ==
    10 * Cardinality(Range(word1) \cap Range(word2))
        >= 6 * Cardinality(Range(word1) \cup Range(word2))

\* C22: two terms of the clustered list are in the same cluster if and only if
\* their character-set Jaccard similarity is at least 0.6.
C22_ClustersFollowSimilarity ==
    \A a, b \in {e.word : e \in Range(clusterInput)} :
        a # b => (AtLeastThreshold(a, b) <=> ClusterOf(a) = ClusterOf(b))

\* the example episode: a problem report, two attempts, a success report
Episode == <<msgError, msgTrying, msgTrying2, msgWorks>>

\* C23: for the example episode the detection records exactly one problem,
\* opened by the first message and closed by the last, with iteration count 2.
C23_OneEpisodeTwoIterations ==
    problemInput = Episode =>
        /\ problemPatterns.problemIdentification.totalProblems = 1
        /\ problemPatterns.problemIdentification.problems[1].startIndex = 0
        /\ problemPatterns.problemIdentification.problems[1].status = "resolved"
        /\ problemPatterns.problemIdentification.problems[1].endIndex = 3
        /\ \/ problemPatterns.iterationPatterns.totalIterations = 2
           \/ problemPatterns.solutionAttempts.totalAttempts = 2

C31_SweepRemovesExpired ==
    [][metrics'.cleanups # metrics.cleanups =>
          /\ \A t \in PoolTypes :
                /\ pools'[t].active = pools[t].active
                /\ Range(pools'[t].available) =
                       {o \in Range(pools[t].available) : idleTime[o] <= maxAge}
                /\ Len(pools'[t].available) = Cardinality(Range(pools'[t].available))
          /\ objData' = objData /\ arrays' = arrays]_vars

\* a sweep has just removed an instance and left another one, available or
\* checked out, where it was
C31_Witness ==
    /\ swept # {}
    /\ \E o \in AvailableObjs \cup ActiveObjs : o \notin swept

\* the instances that are active or available under some type tag
Tracked == ActiveObjs \cup AvailableObjs

\* C32: totalObjects equals the number of instances that are active or
\* available across all type tags.
C32_TotalObjectsIsLive == metrics.totalObjects = Cardinality(Tracked)

\* C39: a release of an instance that is not checked out under the given type
\* tag returns false and leaves the pools, the payloads and the metrics
\* unchanged.
C39_FailedReleaseNoEffect ==
    [][\A t \in PoolTypes, o \in Objs :
          (lastRelease'.type = t /\ lastRelease'.obj = o /\ o \notin pools[t].active) =>
              /\ lastRelease'.returned = FALSE
              /\ UNCHANGED <<pools, objData, objType, arrays, metrics>>]_vars

\* a release was just refused for an instance that is in the available list
\* of the type tag: a double release
C39_Witness ==
    /\ lastRelease.type # "none" /\ ~lastRelease.returned
    /\ lastRelease.obj \in Range(pools[lastRelease.type].available)

\* C33: for every event name the subscriber count of the metrics equals the
\* number of handlers subscribed to that name, and is never negative.
C33_SubscriberCountIsLive ==
    \A n \in ListenerNames :
        /\ subscriberCount[n] >= 0
        /\ subscriberCount[n] = Len(SelectSeq(listeners[n], LAMBDA l : l.wrapped))

\* C38: with handlers registered through subscribe only, a handler that throws
\* is no dispatch failure: every dispatched event is dispatched once, without a
\* retry, counted once in eventsProcessed and never in eventsFailed.
C38_HandlerErrorIsNoFailure ==
    /\ retries = {}
    /\ busMetrics.eventsFailed = 0
    /\ busMetrics.eventsProcessed = Len(dispatched)
    /\ \A i \in 1..Len(dispatched) :
          /\ dispatched[i].retry = 0
          /\ ~dispatched[i].threw
          /\ \A j \in 1..Len(dispatched) : dispatched[j].id = dispatched[i].id => j = i

\* an event was dispatched to handlers that all throw, and every one of them
\* was invoked
C38_Witness ==
    \E i \in 1..Len(dispatched) :
        LET hs == listeners[dispatched[i].event] IN
        /\ Len(hs) = 2
        /\ \A k \in 1..Len(hs) : hs[k].kind = "throws" /\ hs[k].wrapped
        /\ dispatched[i].registered = Len(hs)
        /\ dispatched[i].invoked = Len(hs)
        /\ busMetrics.eventsProcessed >= 1

\* the episodes recorded by the last problem-solving detection
Problems == problemPatterns.problemIdentification.problems

\* C34: at most one recorded episode is open, every episode but the last is
\* resolved, and the index ranges of the episodes follow each other without
\* overlap.
C34_EpisodesSequential ==
    /\ problemPatterns.problemIdentification.openProblems <= 1
    /\ \A k \in 1..Len(Problems) :
          /\ Problems[k].status = "open" => k = Len(Problems)
          /\ Problems[k].status = "resolved" => Problems[k].startIndex <= Problems[k].endIndex
          /\ k > 1 => Problems[k - 1].endIndex < Problems[k].startIndex
          /\ k > 1 => Problems[k - 1].endIndex # NoIndex

\* a problem keyword was seen while an episode was open, and a second episode
\* was recorded after the first was resolved
C34_Witness ==
    /\ Len(Problems) = 2
    /\ \E i \in 1..Len(problemInput) :
          /\ Problems[1].startIndex < i - 1 /\ i - 1 < Problems[1].endIndex
          /\ \E k \in 1..Len(problemIndicators) :
                includes(toLowerCase(problemInput[i]), problemIndicators[k])

\* the clusters that hold word w as seed or as absorbed term, one entry for
\* every occurrence
Occurrences(w) ==
    Len(SelectSeq(clusterOutput, LAMBDA c : c.mainTopic = w))
        + SumTo([k \in 1..Len(clusterOutput) |->
                    Len(SelectSeq(clusterOutput[k].relatedTopics, LAMBDA r : r.word = w))],
                Len(clusterOutput))

\* C35: every keyword of the clustered list occurs in exactly one cluster, as
\* its seed or as one absorbed term; a cluster's confidence is the score of its
\* seed, its size is 1 plus the number of absorbed terms, and every absorbed
\* term has similarity above 0.6 to the seed.
C35_ClustersPartition ==
    /\ \A e \in Range(clusterInput) : Occurrences(e.word) = 1
    /\ \A k \in 1..Len(clusterOutput) :
          LET c == clusterOutput[k] IN
          /\ \E e \in Range(clusterInput) : e.word = c.mainTopic /\ e.score = c.confidence
          /\ c.size = 1 + Len(c.relatedTopics)
          /\ \A r \in Range(c.relatedTopics) :
                /\ r \in Range(clusterInput)
                /\ 10 * Cardinality(Range(c.mainTopic) \cap Range(r.word))
                      > 6 * Cardinality(Range(c.mainTopic) \cup Range(r.word))

\* three keywords were clustered into a cluster with an absorbed term and a
\* cluster of one
C35_Witness ==
    /\ Len(clusterInput) = 3
    /\ Len(clusterOutput) = 2
    /\ \E k \in 1..2 : clusterOutput[k].size = 2

\* C36: the dominant style reported for an analysed message sequence is one
\* of the four style names, and no style has a larger count.
C36_DominantIsArgMax ==
    styleInput # <<>> =>
        /\ styleResult.dominantStyle.type = "string"
        /\ styleResult.dominantStyle.name \in StyleNames
        /\ \A style \in StyleNames :
              styleResult.styles[styleResult.dominantStyle.name] >= styleResult.styles[style]

\* C37: the activeConnections counter equals the number of connections marked
\* inUse and lies between 0 and maxConnections, also during and after close.
C37_ActiveCounterExact ==
    /\ activeConnections = Cardinality({i \in 1..Len(connections) : connections[i].inUse})
    /\ 0 <= activeConnections
    /\ activeConnections <= maxConnections

\* C40: every submitted task is dispatched to a worker: no handle fails
\* because the pool holds no worker, whether start-up is still under way or not.
C40_SubmitAlwaysDispatched ==
    \A t \in TaskIds :
        tasks[t].handle # "none" => (tasks[t].handle # "error" /\ tasks[t].worker # 0)

====
